---- MODULE Spec2Model ----
(***************************************************************************)
(* A model of the web acquisition pipeline of prompt-enhancer:             *)
(*   - BraveSearchAPI      (brave-search-api.ts): rate limiter and retry   *)
(*   - BrowserPoolManager  (browser-pool-manager.ts): session pool         *)
(*   - StealthContentScraper (stealth-content-scraper.ts)                  *)
(*   - EnhancedPromptService (enhanced-prompt-service.ts): orchestrator    *)
(*   - CacheService and the process_prompt handler (mcp-server.ts)         *)
(* Time is counted in ticks of MsPerTick milliseconds.  Every await of the *)
(* source is a point where another action, or the clock, may take a step.  *)
(***************************************************************************)
EXTENDS Integers, Sequences, FiniteSets, TLC

VARIABLES
    \* ---- BraveSearchAPI -------------------------------------------------
    clock,          \* Date.now(), in ticks
    config,         \* BraveSearchConfig: [apiKey, maxRetries], 0 = not set
    rateLimitInfo,  \* [limit, lastRequestTime]
    callers,        \* the invocations that share this client instance
    spc,            \* caller -> where it stands in search()
    attempt,        \* caller -> the loop variable of makeRequestWithRetry
    wakeAt,         \* caller -> the tick its pending setTimeout is due
    sent,           \* caller -> requests sent by the current search call
    waits,          \* caller -> backoff waits begun by the current search call
    lastResp,       \* caller -> the last response the current search call received
    onlyRL,         \* caller -> every response of the current call was the backend's rate-limit answer
    backend,        \* the answers the backend may give
    outcome,        \* caller -> "none" | "ok" | "raised" of the last search call
    searchesDone,   \* caller -> search calls completed
    sendLog,        \* [n, last, prev, recorded, limit]: the last two sends
    \* ---- BrowserPoolManager of the content scraper ----------------------
    browsers,       \* keys of the Map sessionId -> Browser
    sessions,       \* keys of the Map sessionId -> ScrapingSession
    nextSessionId,  \* the id generateSessionId() hands out next
    closeCalls,     \* sessionId -> closeBrowser(sessionId) calls that returned
    environmentInfo, \* what detectEnvironment() found: [platform, arch]
    created,        \* what the createStealthBrowser call that just ended did
    \* ---- one invocation of enhancePromptWithWebContext ------------------
    opc,            \* where the invocation stands
    originalPrompt, \* the argument originalPrompt
    options,        \* the argument options
    categorization, \* what categorizeTaskWithWebSearch returned
    searchQueries,  \* the queries searchAndScrapeContent was called with
    qi,             \* index of the query being searched
    allUrls,        \* allUrls of searchAndScrapeContent
    uniqueUrls,     \* the list handed to scrapeUrls
    si,             \* the loop variable i of scrapeUrls, from 1
    results,        \* results of scrapeUrls
    sessionId,      \* the session scrapeUrl holds, 0 when none
    tryOutcome,     \* how the try block of the last scrapeUrl ended
    attempted,      \* scrapeUrl calls made by this invocation
    failed,         \* the collaborators that failed during this invocation
    result,         \* the value returned to the caller
    scrapeOptions,  \* opts of scrapeUrls: its options over the scraper's defaults
    searched,       \* the queries handed to the search client by this invocation
    enhancerInput,  \* the prompt promptEnhancer.enhancePrompt was last called with
    \* PromptEnhancerMCPServer and its CacheService
    promptService,  \* whether the server's constructor got its EnhancedPromptService
    cacheConfig,    \* getCacheSettings(): ttl in seconds, max_size in keys
    cache,          \* the NodeCache of the CacheService: key -> stored entry
    handlers,       \* the request slots a client may use
    handler,        \* per slot: the handleProcessPrompt call in it, if any
    log,            \* history: the calls answered and the caches cleared, in order
    \* ---- one call of EnhancedTaskCategorizer.categorizeTaskWithWebSearch --
    ppc,            \* where the call stands
    searchQueryConfig, \* whether the constructor got a provider and a model for queries
    planPrompt,     \* the argument prompt
    planCategories, \* categories of categorizeTaskWithWebSearch
    planLog,        \* history: what the tagger and the LLM did, and the path taken
    planned,        \* the value returned
    \* ---- invocations that run at the same time on one service ------------
    scrapers,       \* invocation -> where its scrapeUrl stands, and its session
    lastRequestTime, \* sessionId -> last_request_time of the session, in ticks
    cleanupLog,     \* history: the cleanup() calls of the service
    \* ---- a user of the CacheService itself --------------------------------
    resizeLog,      \* history: the resize() calls so far, and the last argument
    \* ---- single functions called by a user ----------------------------------
    excerptLog,     \* history: the last content summarised for the prompt, and the summary
    pace,           \* one scrapeUrls call followed in time: where it stands, Date.now(),
                    \* and when each scrapeUrl call began and ended
    enhanceRun,     \* one PromptEnhancer.enhancePrompt call: its options and its locals
    lookup          \* history: the prompts given to cacheEnhancement, and the last
                    \* getCachedEnhancement call with the value it returned

searchVars == <<clock, config, rateLimitInfo, callers, spc, attempt, wakeAt,
                sent, waits, lastResp, onlyRL, backend, outcome, searchesDone,
                sendLog>>

poolVars == <<browsers, sessions, nextSessionId, closeCalls, environmentInfo, created>>

orchVars == <<opc, originalPrompt, options, categorization, searchQueries, qi,
              allUrls, uniqueUrls, si, results, sessionId, tryOutcome, attempted,
              failed, result, scrapeOptions, searched, enhancerInput>>

cacheVars == <<promptService, cacheConfig, cache, handlers, handler, log>>

plannerVars == <<ppc, searchQueryConfig, planPrompt, planCategories, planLog, planned>>

\* the state outside the server, its pipeline and its clients
sharedPoolVars == <<scrapers, lastRequestTime, cleanupLog>>

\* the state of the functions checked on their own
sideVars == <<excerptLog, pace, enhanceRun, lookup>>

auxVars == <<plannerVars, sharedPoolVars, resizeLog, sideVars>>

vars == <<searchVars, poolVars, orchVars, cacheVars, auxVars>>

\* what the search client leaves alone, and what an invocation leaves alone
nonSearchVars == <<poolVars, orchVars, cacheVars, auxVars>>
nonOrchVars == <<searchVars, cacheVars, auxVars>>
nonPlannerVars == <<searchVars, poolVars, orchVars, cacheVars, sharedPoolVars, resizeLog,
                    sideVars>>
nonPoolVars == <<searchVars, orchVars, cacheVars, plannerVars, resizeLog, sideVars>>
nonCacheVars == <<searchVars, poolVars, orchVars, plannerVars, sharedPoolVars, sideVars>>
nonSideVars == <<searchVars, poolVars, orchVars, cacheVars, plannerVars, sharedPoolVars,
                 resizeLog>>

(***************************************************************************)
(* Bounds of the model.                                                    *)
(***************************************************************************)
MsPerTick == 500
StartClock == 2
Horizon == 7
MaxSearches == 2

(***************************************************************************)
(* Program constants of BraveSearchAPI.                                    *)
(***************************************************************************)
DefaultLimit == 1
DefaultMaxRetries == 3
DefaultRetryDelay == 1000
MsPerSecond == 1000
JitterMs == 1000

AllCallers == {1, 2}

CeilDiv(a, b) == (a + b - 1) \div b

Pow2(n) == IF n <= 0 THEN 1 ELSE IF n = 1 THEN 2 ELSE IF n = 2 THEN 4 ELSE 8

(***************************************************************************)
(* What the backend can answer.  status 0 stands for fetch() itself        *)
(* rejecting (timeout, network error).  The body is kept as the three      *)
(* facts the client reads from it: whether its text contains "429",        *)
(* whether it contains "RATE_LIMITED", and error.meta.rate_limit (0 when   *)
(* absent).                                                                *)
(***************************************************************************)
RespOk          == [status |-> 200, body429 |-> FALSE, bodyRL |-> FALSE, rate_limit |-> 0]
RespRateLimited == [status |-> 429, body429 |-> TRUE,  bodyRL |-> TRUE,  rate_limit |-> 2]
RespBare429     == [status |-> 429, body429 |-> FALSE, bodyRL |-> FALSE, rate_limit |-> 0]
RespServerError == [status |-> 500, body429 |-> FALSE, bodyRL |-> FALSE, rate_limit |-> 0]
RespGatewayEcho == [status |-> 503, body429 |-> TRUE,  bodyRL |-> TRUE,  rate_limit |-> 0]
RespTimeout     == [status |-> 0,   body429 |-> FALSE, bodyRL |-> FALSE, rate_limit |-> 0]

NoResponse      == [status |-> -1,  body429 |-> FALSE, bodyRL |-> FALSE, rate_limit |-> 0]

Responses == {RespOk, RespRateLimited, RespBare429, RespServerError,
              RespGatewayEcho, RespTimeout}

\* response.ok
ResponseOk(r) == r.status = 200

\* A rate-limit response of the backend: HTTP 429.
IsRateLimitResponse(r) == r.status = 429

\* The backend's own rate-limit answer: HTTP 429 carrying code RATE_LIMITED.
IsBraveRateLimit(r) == r.status = 429 /\ r.bodyRL

(***************************************************************************)
(* The Error that requestFn throws for a response that is not ok:          *)
(*   `Brave API request failed: ${status} ${statusText} - ${errorText}`    *)
(* kept as what the catch block reads from its message.  A rejected fetch  *)
(* carries the runtime's message, which has neither marker.                *)
(***************************************************************************)
ErrorMessage(r) ==
    IF r.status = 0
    THEN [prefixed |-> FALSE, has429 |-> FALSE, hasRL |-> FALSE, rate_limit |-> 0]
    ELSE [prefixed |-> TRUE,
          has429 |-> (r.status = 429 \/ r.body429),
          hasRL |-> r.bodyRL,
          rate_limit |-> r.rate_limit]

\* errorMessage.includes('429') && errorMessage.includes('RATE_LIMITED')
IsRateLimitError(msg) == msg.has429 /\ msg.hasRL

(***************************************************************************)
(* parseRateLimitFromError: JSON.parse is applied to the whole message, so *)
(* it succeeds only on a message that is JSON text from its first          *)
(* character; a message with the "Brave API request failed: " prefix is    *)
(* not, the parse throws and the limit is left as it was.                  *)
(***************************************************************************)
ParseRateLimitFromError(msg, limit) ==
    IF ~msg.prefixed /\ msg.rate_limit # 0 THEN msg.rate_limit ELSE limit

\* this.config.maxRetries || 3
MaxRetriesOfOneMore(cfg) == (IF cfg.maxRetries = 0 THEN DefaultMaxRetries ELSE cfg.maxRetries) + 1

MaxRetriesOf(cfg) == IF cfg.maxRetries = 0 THEN DefaultMaxRetries ELSE cfg.maxRetries

\* attempt < maxRetries, the guard of the backoff branch
MayRetry(a, cfg) == a < MaxRetriesOf(cfg)

\* baseDelay * 2^(attempt-1), in ticks; the jitter adds up to JitterTicks more
BackoffTicks(a) == CeilDiv(DefaultRetryDelay * Pow2(a - 1), MsPerTick)

JitterTicks == CeilDiv(JitterMs, MsPerTick)

(***************************************************************************)
(* waitForRateLimit: timeSinceLastRequest < minDelayMs, with               *)
(* minDelayMs = 1000 / limit, compared without dividing.                   *)
(***************************************************************************)
MustWaitNever(now, info) == FALSE

MustWait(now, info) ==
    (now - info.lastRequestTime) * MsPerTick * info.limit < MsPerSecond

\* waitTime = minDelayMs - timeSinceLastRequest, in ticks, rounded up
WaitTicks(now, info) ==
    CeilDiv(MsPerSecond - (now - info.lastRequestTime) * MsPerTick * info.limit,
            MsPerTick * info.limit)

(***************************************************************************)
(* The request leaves in the step that commits lastRequestTime = Date.now():*)
(* `await this.waitForRateLimit(); return await requestFn()`.              *)
(***************************************************************************)
CommitAndSend(c) ==
    /\ rateLimitInfo' = [rateLimitInfo EXCEPT !.lastRequestTime = clock]
    /\ sent' = [sent EXCEPT ![c] = @ + 1]
    /\ sendLog' = [n |-> sendLog.n + 1, last |-> clock, prev |-> sendLog.last,
                   recorded |-> rateLimitInfo.lastRequestTime,
                   limit |-> rateLimitInfo.limit, by |-> c]
    /\ spc' = [spc EXCEPT ![c] = "inflight"]

\* search(): the credential check, then makeRequestWithRetry starts at attempt 1
StartSearch(c) ==
    /\ c \in callers
    /\ spc[c] = "idle"
    /\ searchesDone[c] < MaxSearches
    /\ sent' = [sent EXCEPT ![c] = 0]
    /\ waits' = [waits EXCEPT ![c] = 0]
    /\ lastResp' = [lastResp EXCEPT ![c] = NoResponse]
    /\ onlyRL' = [onlyRL EXCEPT ![c] = TRUE]
    /\ IF config.apiKey
       THEN /\ spc' = [spc EXCEPT ![c] = "attempt"]
            /\ attempt' = [attempt EXCEPT ![c] = 1]
            /\ outcome' = [outcome EXCEPT ![c] = "none"]
            /\ UNCHANGED searchesDone
       ELSE /\ outcome' = [outcome EXCEPT ![c] = "raised"]
            /\ searchesDone' = [searchesDone EXCEPT ![c] = @ + 1]
            /\ UNCHANGED <<spc, attempt>>
    /\ UNCHANGED <<clock, config, rateLimitInfo, callers, wakeAt, sendLog, backend>>
    /\ UNCHANGED nonSearchVars

\* waitForRateLimit up to its await, or through to the request when no wait is due
WaitForRateLimit(c) ==
    /\ c \in callers
    /\ spc[c] = "attempt"
    /\ IF MustWait(clock, rateLimitInfo)
       THEN /\ spc' = [spc EXCEPT ![c] = "rlSleep"]
            /\ wakeAt' = [wakeAt EXCEPT ![c] = clock + WaitTicks(clock, rateLimitInfo)]
            /\ UNCHANGED <<rateLimitInfo, sent, sendLog>>
       ELSE /\ CommitAndSend(c)
            /\ UNCHANGED wakeAt
    /\ UNCHANGED <<clock, config, callers, attempt, waits, lastResp, onlyRL, backend, outcome, searchesDone>>
    /\ UNCHANGED nonSearchVars

\* the setTimeout of waitForRateLimit fires: commit, then the request
RateLimitWake(c) ==
    /\ c \in callers
    /\ spc[c] = "rlSleep"
    /\ clock >= wakeAt[c]
    /\ CommitAndSend(c)
    /\ UNCHANGED <<clock, config, callers, attempt, wakeAt, waits, lastResp, onlyRL, backend, outcome,
                   searchesDone>>
    /\ UNCHANGED nonSearchVars

\* requestFn settles: a result, or the catch block of makeRequestWithRetry
Respond(c, r, jitter) ==
    /\ c \in callers
    /\ spc[c] = "inflight"
    /\ r \in backend
    /\ lastResp' = [lastResp EXCEPT ![c] = r]
    /\ onlyRL' = [onlyRL EXCEPT ![c] = @ /\ IsBraveRateLimit(r)]
    /\ IF ResponseOk(r)
       THEN /\ outcome' = [outcome EXCEPT ![c] = "ok"]
            /\ spc' = [spc EXCEPT ![c] = "idle"]
            /\ searchesDone' = [searchesDone EXCEPT ![c] = @ + 1]
            /\ UNCHANGED <<rateLimitInfo, wakeAt, waits>>
       ELSE LET msg == ErrorMessage(r) IN
            IF IsRateLimitError(msg)
            THEN /\ rateLimitInfo' = [rateLimitInfo EXCEPT
                        !.limit = ParseRateLimitFromError(msg, @)]
                 /\ IF MayRetry(attempt[c], config)
                    THEN /\ spc' = [spc EXCEPT ![c] = "backoff"]
                         /\ wakeAt' = [wakeAt EXCEPT
                                ![c] = clock + BackoffTicks(attempt[c]) + jitter]
                         /\ waits' = [waits EXCEPT ![c] = @ + 1]
                         /\ UNCHANGED <<outcome, searchesDone>>
                    ELSE /\ outcome' = [outcome EXCEPT ![c] = "raised"]
                         /\ spc' = [spc EXCEPT ![c] = "idle"]
                         /\ searchesDone' = [searchesDone EXCEPT ![c] = @ + 1]
                         /\ UNCHANGED <<wakeAt, waits>>
            ELSE /\ outcome' = [outcome EXCEPT ![c] = "raised"]
                 /\ spc' = [spc EXCEPT ![c] = "idle"]
                 /\ searchesDone' = [searchesDone EXCEPT ![c] = @ + 1]
                 /\ UNCHANGED <<rateLimitInfo, wakeAt, waits>>
    /\ UNCHANGED <<clock, config, callers, attempt, sent, sendLog, backend>>
    /\ UNCHANGED nonSearchVars

\* the backoff setTimeout fires: `continue` with attempt + 1
BackoffWake(c) ==
    /\ c \in callers
    /\ spc[c] = "backoff"
    /\ clock >= wakeAt[c]
    /\ attempt' = [attempt EXCEPT ![c] = @ + 1]
    /\ spc' = [spc EXCEPT ![c] = "attempt"]
    /\ UNCHANGED <<clock, config, rateLimitInfo, callers, wakeAt, sent, waits, lastResp,
                   onlyRL, backend, outcome, searchesDone, sendLog>>
    /\ UNCHANGED nonSearchVars

\* time passes
Tick ==
    /\ clock < StartClock + Horizon
    /\ clock' = clock + 1
    /\ UNCHANGED <<config, rateLimitInfo, callers, spc, attempt, wakeAt, sent, waits,
                   lastResp, onlyRL, backend, outcome, searchesDone, sendLog>>
    /\ UNCHANGED nonSearchVars


NextSearch ==
    \/ \E c \in AllCallers : StartSearch(c)
    \/ \E c \in AllCallers : WaitForRateLimit(c)
    \/ \E c \in AllCallers : RateLimitWake(c)
    \/ \E c \in AllCallers, r \in Responses, j \in 0..JitterTicks : Respond(c, r, j)
    \/ \E c \in AllCallers : BackoffWake(c)
    \/ Tick


(***************************************************************************)
(* BrowserPoolManager.                                                     *)
(***************************************************************************)
NumStrategies == 2
MaxSessions == 4

SessionIds == 1..MaxSessions

\* os.platform() and os.arch() as detectEnvironment() may find them
Environments == {[platform |-> "linux", arch |-> "x64"],
                 [platform |-> "darwin", arch |-> "arm64"]}

\* how launchBrowserWithStrategy can end: a browser, or an Error with its message
LaunchOk == "ok"
LaunchOutcomes == {LaunchOk, "Failed to launch the browser process", "spawn ENOENT", ""}

\* one launch as the history keeps it: the strategy, and the browser or the error
Launch(k, o) == [strategy |-> k, ok |-> (o = LaunchOk),
                 error |-> IF o = LaunchOk THEN "" ELSE o]

RECURSIVE LaunchLoopPastSuccess(_, _, _, _)
LaunchLoopPastSuccess(launches, k, launched, errors) ==
    IF k > NumStrategies
    THEN [strategy |-> IF \E j \in 1..NumStrategies : launches[j] = LaunchOk
                       THEN CHOOSE j \in 1..NumStrategies : launches[j] = LaunchOk
                       ELSE 0,
          launched |-> launched, errors |-> errors]
    ELSE LaunchLoopPastSuccess(launches, k + 1, Append(launched, Launch(k, launches[k])),
                               IF launches[k] = LaunchOk THEN errors
                               ELSE Append(errors, launches[k]))

RECURSIVE LaunchLoop(_, _, _, _)
\* `for (const strategy of this.browserStrategies)` from strategy k on: the loop
\* returns at the first launch that succeeds, and collects the error of each
\* launch that fails
LaunchLoop(launches, k, launched, errors) ==
    IF k > NumStrategies
    THEN [strategy |-> 0, launched |-> launched, errors |-> errors]
    ELSE IF launches[k] = LaunchOk
    THEN [strategy |-> k, launched |-> Append(launched, Launch(k, launches[k])),
          errors |-> errors]
    ELSE LaunchLoop(launches, k + 1, Append(launched, Launch(k, launches[k])),
                    Append(errors, launches[k]))

\* the first strategy of browserStrategies whose launch succeeds, 0 when none does
FirstSuccess(launches) == LaunchLoop(launches, 1, <<>>, <<>>).strategy

NoMessage == [platform |-> "", arch |-> "", strategies |-> 0, lastError |-> ""]

\* the Error thrown when every strategy failed, kept as the parts of its message:
\* `Browser creation failed on ${platform}/${arch}. All ${browserStrategies.length}
\* strategies attempted. Last error: ${errors[errors.length - 1]?.message || 'Unknown error'}`
BrowserCreationFailedFirstError(env, errors) ==
    [platform |-> env.platform, arch |-> env.arch, strategies |-> NumStrategies,
     lastError |-> IF Len(errors) = 0 \/ errors[1] = "" THEN "Unknown error" ELSE errors[1]]

BrowserCreationFailed(env, errors) ==
    [platform |-> env.platform, arch |-> env.arch, strategies |-> NumStrategies,
     lastError |-> IF Len(errors) = 0 \/ errors[Len(errors)] = ""
                   THEN "Unknown error" ELSE errors[Len(errors)]]

\* no createStealthBrowser call has just ended
NoCreate == [launched |-> <<>>, sessionId |-> 0, raised |-> FALSE,
             message |-> NoMessage, browsersBefore |-> {}, sessionsBefore |-> {}]

\* what a createStealthBrowser call did, given how its launches end
Created(launches) ==
    LET loop == LaunchLoop(launches, 1, <<>>, <<>>)
    IN  [launched |-> loop.launched,
         sessionId |-> IF loop.strategy # 0 THEN nextSessionId ELSE 0,
         raised |-> (loop.strategy = 0),
         message |-> IF loop.strategy = 0
                     THEN BrowserCreationFailed(environmentInfo, loop.errors)
                     ELSE NoMessage,
         browsersBefore |-> browsers, sessionsBefore |-> sessions]

(***************************************************************************)
(* closeBrowser(id): `await browser.close()` may reject; the deletes after *)
(* it are then skipped and the catch block only logs.                      *)
(***************************************************************************)
SessionsAfterCloseInFinally(id, closeOk) == sessions \ {id}

BrowsersAfterClose(id, closeOk) ==
    IF id \in browsers /\ closeOk THEN browsers \ {id} ELSE browsers

SessionsAfterClose(id, closeOk) ==
    IF id \in browsers /\ ~closeOk THEN sessions ELSE sessions \ {id}


(***************************************************************************)
(* Data of one invocation.  A prompt is kept as its list of lower-case     *)
(* words; a URL as a string.                                               *)
(***************************************************************************)
Prompts == {<<"fix", "it">>, <<"build", "fastapi", "server">>}

Options == [enable_web_search : {"undefined", "true", "false"},
            max_scraped_content : {0, 2, 4}]

DefaultMaxScrapedContent == 3
ScrapeUrlLimit == 3
MaxQueriesSearched == 2
OrchestratorMinWordCount == 50
DefaultMinWordCount == 50

UrlGithub == "https://github.com/org/repo"
UrlDocs == "https://docs.example.com/guide"
UrlBlog == "https://medium.com/blog-post"
UrlPlain == "https://example.com/page"
UrlInvalid == "not a url"

\* `new URL(url)` does not throw
IsValidUrl(u) == u # UrlInvalid

\* what one searchWithIntelligentFallback call can produce inside the client
SearchOutcomes ==
    [raised : {TRUE}, urls : {<<>>}] \cup
    [raised : {FALSE}, urls : {<<>>, <<UrlGithub, UrlDocs>>, <<UrlDocs, UrlBlog, UrlPlain>>}]

\* searchWithIntelligentFallback: a failing or empty Brave search gives []
SearchWithIntelligentFallback(o) == IF o.raised THEN <<>> ELSE o.urls

Query(text, prio) == [query |-> text, category |-> "general", priority |-> prio]

PlannerCategories == {<<>>, <<"code_generation">>}
PlannerQueries == {<<>>, <<Query(<<"q1">>, 1)>>,
                   <<Query(<<"q1">>, 1), Query(<<"q2">>, 2), Query(<<"q3">>, 3)>>}

\* categorizeTaskWithWebSearch returns its result, or throws
CategorizeOutcomes ==
    [threw : {TRUE}, categories : {<<>>}, suggested_search_queries : {<<>>}] \cup
    [threw : {FALSE}, categories : PlannerCategories,
     suggested_search_queries : PlannerQueries]

\* categorizeTask returns its categories, or throws
CategorizeTaskOutcomes ==
    [threw : {TRUE}, categories : {<<>>}] \cup [threw : {FALSE}, categories : PlannerCategories]

NoCategorization == [categories |-> <<>>, suggested_search_queries |-> <<>>]

StopWords == {"the", "and", "for", "are", "but", "not", "you", "all", "can", "had",
              "her", "was", "one", "our", "out", "day", "get", "has", "him", "his",
              "how", "man", "new", "now", "old", "see", "two", "way", "who", "boy",
              "did", "its", "let", "put", "say", "she", "too", "use"}

\* charCodeAt over the words the prompts are made of
WordCodes(w) ==
    CASE w = "fix" -> <<102, 105, 120>>
      [] w = "it" -> <<105, 116>>
      [] w = "build" -> <<98, 117, 105, 108, 100>>
      [] w = "fastapi" -> <<102, 97, 115, 116, 97, 112, 105>>
      [] w = "server" -> <<115, 101, 114, 118, 101, 114>>
      [] w = "Aa" -> <<65, 97>>
      [] w = "BB" -> <<66, 66>>

WordLen(w) == Len(WordCodes(w))

IsKeyWord(w) == WordLen(w) > 3 /\ w \notin StopWords

Min(a, b) == IF a < b THEN a ELSE b

\* generateFallbackQueriesFromPrompt
GenerateFallbackQueriesFromPrompt(p) ==
    LET words == SelectSeq(p, IsKeyWord)
        keyTerms == SubSeq(words, 1, Min(3, Len(words)))
    IN  IF Len(words) = 0 THEN <<>>
        ELSE << Query(keyTerms \o <<"latest">>, 1),
                Query(keyTerms \o <<"best practices documentation">>, 2) >>

WebSearchEnabledAlways(opts) == TRUE

\* options.enable_web_search !== false
WebSearchEnabled(opts) == opts.enable_web_search # "false"

\* options.max_scraped_content || 3
MaxScrapedContent(opts) ==
    IF opts.max_scraped_content = 0 THEN DefaultMaxScrapedContent
    ELSE opts.max_scraped_content

RECURSIVE Dedup(_, _)
\* [...new Set(allUrls)]: first occurrences, in order
Dedup(urls, have) ==
    IF urls = <<>> THEN <<>>
    ELSE IF Head(urls) \in have THEN Dedup(Tail(urls), have)
    ELSE <<Head(urls)>> \o Dedup(Tail(urls), have \cup {Head(urls)})

Take(q, n) == SubSeq(q, 1, Min(n, Len(q)))

\* [...new Set(allUrls)].slice(0, options.max_scraped_content || 3)
UniqueUrlsUncapped(urls, opts) == urls

UniqueUrls(urls, opts) == Take(Dedup(urls, {}), MaxScrapedContent(opts))

\* urls.slice(0, 3) in scrapeUrls
UrlsToScrape(urls) == Take(urls, ScrapeUrlLimit)

\* searchQueries.slice(0, 2)
QueriesToSearch(queries) == Take(queries, MaxQueriesSearched)

\* an option the caller left out
Undefined == -1

\* defaultOptions of the scraper, and the options scrapeUrls may be called with
DefaultOptions == [minWordCount |-> 50]
ScrapingOptions == [minWordCount : {Undefined, 0, 10, 50}]

\* what searchAndScrapeContent passes to scrapeUrls
OrchestratorOptions == [minWordCount |-> OrchestratorMinWordCount]

\* const opts = { ...this.defaultOptions, ...options }
MergeOptions(o) ==
    [minWordCount |-> IF o.minWordCount = Undefined THEN DefaultOptions.minWordCount
                      ELSE o.minWordCount]

\* the lists scrapeUrls may be called with
UrlLists == {<<>>, <<UrlGithub, UrlInvalid, UrlDocs>>,
             <<UrlDocs, UrlBlog, UrlPlain, UrlGithub>>}

(***************************************************************************)
(* How the try block of scrapeUrl can end: setupStealthPage or page.goto   *)
(* throwing, extractPageContent giving null (its own catch, an empty page, *)
(* or fewer words than minWordCount), or a page with its word count.       *)
(***************************************************************************)
Page(words, desc, kw, title) == [kind |-> "page", word_count |-> words,
                                 description |-> desc, keywords |-> kw, title |-> title]
Threw(what) == [kind |-> what, word_count |-> 0, description |-> FALSE, keywords |-> FALSE,
                title |-> ""]

NoOutcome == Threw("none")

PageOutcomes == {Threw("setupFailed"), Threw("navigationTimeout"), Threw("extractionFailed"),
                 Page(30, FALSE, FALSE, "Notes"), Page(60, TRUE, FALSE, ""),
                 Page(300, TRUE, TRUE, "Guide")}

\* opts.minWordCount || 50
MinWordCountOf(m) == IF m = 0 THEN DefaultMinWordCount ELSE m

NullContent == [url |-> "", title |-> "", word_count |-> -1, description |-> FALSE,
                keywords |-> FALSE]

\* extractTitleFromUrl: the last part of the path in title case, else the host name
ExtractTitleFromUrl(u) ==
    CASE u = UrlGithub -> "Repo"
      [] u = UrlDocs -> "Guide"
      [] u = UrlBlog -> "Blog Post"
      [] u = UrlPlain -> "Page"
      [] OTHER -> "Unknown Title"

\* what scrapeUrl returns: the content, or null; an exception is kept as thrown
ExtractPageContent(url, o, m) ==
    IF o.kind = "page" /\ o.word_count > 0 /\ o.word_count >= MinWordCountOf(m)
    THEN [url |-> url,
          title |-> IF o.title = "" THEN ExtractTitleFromUrl(url) ELSE o.title,
          word_count |-> o.word_count, description |-> o.description,
          keywords |-> o.keywords]
    ELSE NullContent

IsException(o) == o.kind \in {"setupFailed", "navigationTimeout"}

\* `content && content.word_count >= (opts.minWordCount || 50)` in scrapeUrls
RetainedAlways(content, m) == TRUE

Retained(content, m) ==
    content # NullContent /\ content.word_count >= MinWordCountOf(m)

\* the finally block of scrapeUrl runs closeBrowser however the try block ended
ReleasesOnlyOnReturn(o) == ~IsException(o)

ReleasesOn(o) == TRUE

(***************************************************************************)
(* calculateSimpleRelevance, in units of 1/20000 so that the halving of    *)
(* short content stays whole.                                              *)
(***************************************************************************)
UrlHasGithub(u) == u = UrlGithub
UrlHasDocs(u) == u = UrlDocs
UrlHasBlog(u) == u = UrlBlog

CalculateSimpleRelevance(c) ==
    LET base == Min(c.word_count, 1000) * 6
        s1 == base + (IF c.description THEN 4000 ELSE 0)
                   + (IF c.keywords THEN 2000 ELSE 0)
                   + (IF UrlHasGithub(c.url) THEN 4000 ELSE 0)
                   + (IF UrlHasDocs(c.url) THEN 3000 ELSE 0)
                   + (IF UrlHasBlog(c.url) THEN 2000 ELSE 0)
        s2 == IF c.word_count < 100 THEN s1 \div 2 ELSE s1
    IN  Min(s2, 20000)

Enrich(c) == [url |-> c.url, title |-> c.title, word_count |-> c.word_count,
              description |-> c.description, keywords |-> c.keywords,
              relevance_score |-> CalculateSimpleRelevance(c)]

RECURSIVE InsertBeforeEqual(_, _)
InsertBeforeEqual(c, sorted) ==
    IF sorted = <<>> THEN <<c>>
    ELSE IF Head(sorted).relevance_score <= c.relevance_score THEN <<c>> \o sorted
    ELSE <<Head(sorted)>> \o InsertBeforeEqual(c, Tail(sorted))

RECURSIVE InsertByScore(_, _)
InsertByScore(c, sorted) ==
    IF sorted = <<>> THEN <<c>>
    ELSE IF Head(sorted).relevance_score < c.relevance_score THEN <<c>> \o sorted
    ELSE <<Head(sorted)>> \o InsertByScore(c, Tail(sorted))

RECURSIVE SortByRelevance(_)
\* .sort((a, b) => b.relevance_score - a.relevance_score), a stable sort
SortByRelevance(cs) ==
    IF cs = <<>> THEN <<>>
    ELSE InsertByScore(cs[Len(cs)], SortByRelevance(SubSeq(cs, 1, Len(cs) - 1)))

MapSeq(f(_), q) == [k \in 1..Len(q) |-> f(q[k])]

\* enrichedContent
EnrichedContent(scraped) == SortByRelevance(MapSeq(Enrich, scraped))

(***************************************************************************)
(* A ratio n/d is kept as <<n, d>>; NaN is <<0, 0>>.                       *)
(* successRate = uniqueUrls.length > 0 ? enriched.length / uniqueUrls.length : 0 *)
(***************************************************************************)
SuccessRateOfRetained(retained, urls) == IF retained > 0 THEN <<retained, urls>> ELSE <<0, 0>>

SuccessRate(retained, urls) == IF urls > 0 THEN <<retained, urls>> ELSE <<0, 1>>

ZeroMetadata == [urls_processed |-> 0, success_rate |-> <<0, 1>>]

\* the metadata searchAndScrapeContent returns
ScrapeMetadata(enriched, urls) ==
    [urls_processed |-> Len(urls), success_rate |-> SuccessRate(Len(enriched), Len(urls))]

(***************************************************************************)
(* A prompt string is kept as its parts: the words of the prompt it starts  *)
(* with, the `**Source n: title** / URL: url` blocks that follow, and       *)
(* whether it ends with the `Please use this additional context` sentence.  *)
(***************************************************************************)
PromptOnly(p) == [text |-> p, blocks |-> <<>>, instruction |-> FALSE]

Block(c) == [title |-> c.title, url |-> c.url]

\* createContextualPrompt
CreateContextualPromptFirstOnly(p, webContext) ==
    IF Len(webContext) = 0 THEN PromptOnly(p)
    ELSE [text |-> p, blocks |-> MapSeq(Block, Take(webContext, 1)), instruction |-> TRUE]

CreateContextualPrompt(p, webContext) ==
    IF Len(webContext) = 0 THEN PromptOnly(p)
    ELSE [text |-> p, blocks |-> MapSeq(Block, Take(webContext, 3)), instruction |-> TRUE]

\* the prompt enhancePromptWithContext calls the enhancer with
EnhancerInput(p, webContext) ==
    IF Len(webContext) > 0 THEN CreateContextualPrompt(p, webContext) ELSE PromptOnly(p)

(***************************************************************************)
(* PromptEnhancer.enhancePrompt(prompt, categories, options).  "enhanced":  *)
(* the provider's generate() answered; "generateRaised": generate() threw,  *)
(* the loop's catch breaks and currentPrompt, still the prompt passed in,   *)
(* is returned; "raised": enhancePrompt itself rejected.  Without a         *)
(* category the prompt passed in is returned and generate() is not called.  *)
(***************************************************************************)
EnhancerOutcomes == {"enhanced", "generateRaised", "raised"}

GenerateCalled(categories) == Len(categories) > 0

EnhancePrompt(prompt, categories, o) ==
    IF GenerateCalled(categories) /\ o = "enhanced"
    THEN [enhanced |-> TRUE, prompt |-> prompt]
    ELSE [enhanced |-> FALSE, prompt |-> prompt]

\* whether the enhancer failed in this call
EnhancerFailed(categories, o) ==
    o = "raised" \/ (o = "generateRaised" /\ GenerateCalled(categories))

\* enhancePromptWithContext: enhancementResult.enhanced_prompt, or the original
\* prompt when enhancePrompt throws
EnhancePromptWithContext(p, categories, webContext, o) ==
    IF o = "raised" THEN [enhanced |-> FALSE, prompt |-> PromptOnly(p)]
    ELSE EnhancePrompt(EnhancerInput(p, webContext), categories, o)

NoInput == [text |-> <<>>, blocks |-> <<>>, instruction |-> FALSE]

NoResult == [none |-> TRUE]

\* the three return statements of enhancePromptWithWebContext
MainResultContextual(p, enhancedPrompt, webContext, cat, metadata) ==
    [original_prompt |-> enhancedPrompt.prompt.blocks, enhanced_prompt |-> enhancedPrompt,
     web_context |-> webContext,
     search_queries |-> cat.suggested_search_queries, categories |-> cat.categories,
     processing_metadata |-> metadata]

MainResult(p, enhancedPrompt, webContext, cat, metadata) ==
    [original_prompt |-> p, enhanced_prompt |-> enhancedPrompt, web_context |-> webContext,
     search_queries |-> cat.suggested_search_queries, categories |-> cat.categories,
     processing_metadata |-> metadata]

FallbackResult(p, enhancedPrompt, categories) ==
    [original_prompt |-> p, enhanced_prompt |-> enhancedPrompt, web_context |-> <<>>,
     search_queries |-> <<>>, categories |-> categories,
     processing_metadata |-> ZeroMetadata]

UltimateResult(p) ==
    [original_prompt |-> p,
     enhanced_prompt |-> [enhanced |-> FALSE, prompt |-> PromptOnly(p)],
     web_context |-> <<>>, search_queries |-> <<>>, categories |-> <<>>,
     processing_metadata |-> ZeroMetadata]

\* catch (fallbackError): the ultimate fallback returns, nothing is rethrown
FallbackCatchRethrows(p) == [opc |-> "raised", result |-> NoResult]

FallbackCatch(p) == [opc |-> "done", result |-> UltimateResult(p)]


\* enhancePromptWithWebContext(p, opts) is called
Invoke(p, opts) ==
    /\ opc = "idle"
    /\ opc' = "categorize"
    /\ originalPrompt' = p
    /\ options' = opts
    /\ UNCHANGED <<categorization, searchQueries, qi, allUrls, uniqueUrls, si, results,
                   sessionId, tryOutcome, attempted, failed, result, scrapeOptions, searched,
                   enhancerInput, poolVars>>
    /\ UNCHANGED nonOrchVars

\* Step 1 and the branch of step 2
Categorize(o) ==
    /\ opc = "categorize"
    /\ IF o.threw
       THEN /\ opc' = "catch"
            /\ failed' = failed \cup {"categorizer"}
            /\ UNCHANGED <<categorization, searchQueries, qi>>
       ELSE LET fallbackQueries == GenerateFallbackQueriesFromPrompt(originalPrompt)
                queries ==
                    IF ~WebSearchEnabled(options) THEN <<>>
                    ELSE IF Len(o.suggested_search_queries) > 0
                         THEN o.suggested_search_queries
                         ELSE fallbackQueries
            IN  /\ categorization' = [categories |-> o.categories,
                                       suggested_search_queries |-> o.suggested_search_queries]
                /\ searchQueries' = queries
                /\ qi' = 1
                /\ opc' = IF Len(queries) > 0 THEN "search" ELSE "enhance"
                /\ UNCHANGED failed
    /\ UNCHANGED <<originalPrompt, options, allUrls, uniqueUrls, si, results, sessionId,
                   tryOutcome, attempted, result, scrapeOptions, searched, enhancerInput, poolVars>>
    /\ UNCHANGED nonOrchVars

\* one iteration of the loop over searchQueries.slice(0, 2); after the last one
\* uniqueUrls is computed and scrapeUrls starts
Search(o) ==
    /\ opc = "search"
    /\ LET urls == allUrls \o SearchWithIntelligentFallback(o)
           last == qi >= Len(QueriesToSearch(searchQueries))
       IN  /\ allUrls' = urls
           /\ qi' = qi + 1
           /\ searched' = Append(searched, QueriesToSearch(searchQueries)[qi])
           /\ failed' = IF o.raised THEN failed \cup {"search"} ELSE failed
           /\ IF last
              THEN /\ uniqueUrls' = UniqueUrls(urls, options)
                   /\ scrapeOptions' = MergeOptions(OrchestratorOptions)
                   /\ si' = 1
                   /\ opc' = "scrape"
              ELSE UNCHANGED <<uniqueUrls, scrapeOptions, si, opc>>
    /\ UNCHANGED <<originalPrompt, options, categorization, searchQueries, results,
                   sessionId, tryOutcome, attempted, result, enhancerInput, poolVars>>
    /\ UNCHANGED nonOrchVars

\* scrapeUrls(urls, options) called by a user of the scraper
ScrapeUrls(urls, o) ==
    /\ opc = "idle"
    /\ opc' = "scrape"
    /\ uniqueUrls' = urls
    /\ scrapeOptions' = MergeOptions(o)
    /\ si' = 1
    /\ results' = <<>>
    /\ UNCHANGED <<originalPrompt, options, categorization, searchQueries, qi, allUrls,
                   sessionId, tryOutcome, attempted, failed, result, searched,
                   enhancerInput, poolVars>>
    /\ UNCHANGED nonOrchVars

\* scrapeUrl(url) for a url that `new URL(url)` rejects: null, and scrapeUrls goes on
ScrapeInvalidUrl ==
    /\ opc = "scrape"
    /\ si <= Len(UrlsToScrape(uniqueUrls))
    /\ ~IsValidUrl(UrlsToScrape(uniqueUrls)[si])
    /\ attempted' = attempted + 1
    /\ tryOutcome' = NoOutcome
    /\ si' = si + 1
    /\ failed' = failed \cup {"scraper"}
    /\ created' = NoCreate
    /\ UNCHANGED <<originalPrompt, options, categorization, searchQueries, qi, allUrls,
                   uniqueUrls, results, sessionId, result, opc, scrapeOptions, searched,
                   enhancerInput>>
    /\ UNCHANGED <<browsers, sessions, nextSessionId, closeCalls, environmentInfo>>
    /\ UNCHANGED nonOrchVars

\* scrapeUrl(url) up to createStealthBrowser: a session, or the error that
\* scrapeUrls catches before it continues with the next URL
CreateStealthBrowser(launches) ==
    /\ opc = "scrape"
    /\ si <= Len(UrlsToScrape(uniqueUrls))
    /\ IsValidUrl(UrlsToScrape(uniqueUrls)[si])
    /\ nextSessionId <= MaxSessions
    /\ attempted' = attempted + 1
    /\ tryOutcome' = NoOutcome
    /\ created' = Created(launches)
    /\ IF FirstSuccess(launches) # 0
       THEN /\ browsers' = browsers \cup {nextSessionId}
            /\ sessions' = sessions \cup {nextSessionId}
            /\ sessionId' = nextSessionId
            /\ nextSessionId' = nextSessionId + 1
            /\ opc' = "inSession"
            /\ UNCHANGED <<si, failed>>
       ELSE /\ si' = si + 1
            /\ failed' = failed \cup {"scraper"}
            /\ UNCHANGED <<browsers, sessions, sessionId, nextSessionId, opc>>
    /\ UNCHANGED <<originalPrompt, options, categorization, searchQueries, qi, allUrls,
                   uniqueUrls, results, result, scrapeOptions, searched, enhancerInput,
                   closeCalls, environmentInfo>>
    /\ UNCHANGED nonOrchVars

\* what scrapeUrls does with the value or the exception of scrapeUrl
AfterScrapeUrl(o) ==
    LET content == ExtractPageContent(UrlsToScrape(uniqueUrls)[si], o, scrapeOptions.minWordCount)
    IN  /\ results' = IF ~IsException(o) /\ Retained(content, scrapeOptions.minWordCount)
                      THEN Append(results, content) ELSE results
        /\ si' = si + 1
        /\ sessionId' = 0
        /\ opc' = "scrape"

\* the try block of scrapeUrl: page setup, navigation, extraction
UsePage(o) ==
    /\ opc = "inSession"
    /\ sessionId \notin sessions => o.kind = "setupFailed"
    /\ tryOutcome' = o
    /\ failed' = IF o.kind # "page" THEN failed \cup {"scraper"} ELSE failed
    /\ IF ReleasesOn(o)
       THEN /\ opc' = "finally"
            /\ UNCHANGED <<results, si, sessionId>>
       ELSE AfterScrapeUrl(o)
    /\ created' = NoCreate
    /\ UNCHANGED <<originalPrompt, options, categorization, searchQueries, qi, allUrls,
                   uniqueUrls, attempted, result, scrapeOptions, searched, enhancerInput>>
    /\ UNCHANGED <<browsers, sessions, nextSessionId, closeCalls, environmentInfo>>
    /\ UNCHANGED nonOrchVars

\* the finally block of scrapeUrl: closeBrowser(sessionId), then back in scrapeUrls
CloseBrowser(closeOk) ==
    /\ opc = "finally"
    /\ browsers' = BrowsersAfterClose(sessionId, closeOk)
    /\ sessions' = SessionsAfterClose(sessionId, closeOk)
    /\ closeCalls' = [closeCalls EXCEPT ![sessionId] = @ + 1]
    /\ AfterScrapeUrl(tryOutcome)
    /\ UNCHANGED <<originalPrompt, options, categorization, searchQueries, qi, allUrls,
                   uniqueUrls, tryOutcome, attempted, failed, result, scrapeOptions, searched,
                   enhancerInput, nextSessionId, environmentInfo, created>>
    /\ UNCHANGED nonOrchVars

\* scrapeUrls returns; searchAndScrapeContent scores, sorts and returns; then Step 3
\* starts with the web context it got
FinishScrape ==
    /\ opc = "scrape"
    /\ si > Len(UrlsToScrape(uniqueUrls))
    /\ opc' = "enhance"
    /\ results' = EnrichedContent(results)
    /\ created' = NoCreate
    /\ UNCHANGED <<originalPrompt, options, categorization, searchQueries, qi, allUrls,
                   uniqueUrls, si, sessionId, tryOutcome, attempted, failed, result,
                   scrapeOptions, searched, enhancerInput>>
    /\ UNCHANGED <<browsers, sessions, nextSessionId, closeCalls, environmentInfo>>
    /\ UNCHANGED nonOrchVars

\* scrapeUrls returns its results to the user who called it
ScrapeUrlsReturns ==
    /\ opc = "scrape"
    /\ si > Len(UrlsToScrape(uniqueUrls))
    /\ opc' = "scraped"
    /\ created' = NoCreate
    /\ UNCHANGED <<originalPrompt, options, categorization, searchQueries, qi, allUrls,
                   uniqueUrls, si, results, sessionId, tryOutcome, attempted, failed,
                   result, scrapeOptions, searched, enhancerInput>>
    /\ UNCHANGED <<browsers, sessions, nextSessionId, closeCalls, environmentInfo>>
    /\ UNCHANGED nonOrchVars

\* processingMetadata as it stands when Step 3 is reached
ProcessingMetadata ==
    IF Len(searchQueries) > 0 THEN ScrapeMetadata(results, uniqueUrls) ELSE ZeroMetadata

\* Step 3 and the return of the result
Enhance(o) ==
    /\ opc = "enhance"
    /\ opc' = "done"
    /\ failed' = IF EnhancerFailed(categorization.categories, o)
                 THEN failed \cup {"enhancer"} ELSE failed
    /\ enhancerInput' = EnhancerInput(originalPrompt, results)
    /\ result' = MainResult(originalPrompt,
                            EnhancePromptWithContext(originalPrompt, categorization.categories,
                                                     results, o),
                            results, categorization, ProcessingMetadata)
    /\ UNCHANGED <<originalPrompt, options, categorization, searchQueries, qi, allUrls,
                   uniqueUrls, si, results, sessionId, tryOutcome, attempted, scrapeOptions,
                   searched, poolVars>>
    /\ UNCHANGED nonOrchVars

\* the outer catch: categorizeTask
FallbackCategorize(o) ==
    /\ opc = "catch"
    /\ IF o.threw
       THEN /\ opc' = FallbackCatch(originalPrompt).opc
            /\ result' = FallbackCatch(originalPrompt).result
            /\ UNCHANGED categorization
       ELSE /\ opc' = "fallbackEnhance"
            /\ categorization' = [categories |-> o.categories, suggested_search_queries |-> <<>>]
            /\ UNCHANGED result
    /\ UNCHANGED <<originalPrompt, options, searchQueries, qi, allUrls, uniqueUrls, si,
                   results, sessionId, tryOutcome, attempted, failed, scrapeOptions, searched,
                   enhancerInput, poolVars>>
    /\ UNCHANGED nonOrchVars

\* the outer catch: enhancement without web context, and the return
FallbackEnhance(o) ==
    /\ opc = "fallbackEnhance"
    /\ opc' = "done"
    /\ failed' = IF EnhancerFailed(categorization.categories, o)
                 THEN failed \cup {"enhancer"} ELSE failed
    /\ enhancerInput' = EnhancerInput(originalPrompt, <<>>)
    /\ result' = FallbackResult(originalPrompt,
                                EnhancePromptWithContext(originalPrompt,
                                                         categorization.categories, <<>>, o),
                                categorization.categories)
    /\ UNCHANGED <<originalPrompt, options, categorization, searchQueries, qi, allUrls,
                   uniqueUrls, si, results, sessionId, tryOutcome, attempted, scrapeOptions,
                   searched, poolVars>>
    /\ UNCHANGED nonOrchVars

NextOrch ==
    \/ \E p \in Prompts, opts \in Options : Invoke(p, opts)
    \/ \E o \in CategorizeOutcomes : Categorize(o)
    \/ \E o \in SearchOutcomes : Search(o)
    \/ \E launches \in [1..NumStrategies -> {LaunchOk, "spawn ENOENT"}] :
            CreateStealthBrowser(launches)
    \/ \E o \in PageOutcomes : UsePage(o)
    \/ \E closeOk \in BOOLEAN : CloseBrowser(closeOk)
    \/ FinishScrape
    \/ \E o \in EnhancerOutcomes : Enhance(o)
    \/ \E o \in CategorizeTaskOutcomes : FallbackCategorize(o)
    \/ \E o \in EnhancerOutcomes : FallbackEnhance(o)

\* a user of the scraper calls scrapeUrls
NextScrape ==
    \/ \E urls \in UrlLists, o \in ScrapingOptions : ScrapeUrls(urls, o)
    \/ ScrapeInvalidUrl
    \/ \E launches \in [1..NumStrategies -> LaunchOutcomes] : CreateStealthBrowser(launches)
    \/ \E o \in PageOutcomes : UsePage(o)
    \/ \E closeOk \in BOOLEAN : CloseBrowser(closeOk)
    \/ ScrapeUrlsReturns

(***************************************************************************)
(* EnhancedTaskCategorizer.  A text is kept as the list of its lower-case  *)
(* words; a line of the LLM's answer as its leading mark ("#", "*", "1."   *)
(* or none), whether it stands in quotes, and its words.  The vocabulary   *)
(* holds no word in which one of the terms the code looks for is part of   *)
(* another word, "log" in "logging" and "api" in "fastapi" apart.          *)
(***************************************************************************)
CodingCategory == "Code Generation & Debugging"
DocumentationCategory == "Technical Documentation"
ResearchCategory == "Research & Information Synthesis"
CreativeCategory == "Creative Writing"

\* topCategory.name.toLowerCase()
ToLowerCase(name) ==
    CASE name = CodingCategory -> "code generation & debugging"
      [] name = DocumentationCategory -> "technical documentation"
      [] name = ResearchCategory -> "research & information synthesis"
      [] name = CreativeCategory -> "creative writing"

PlannerPrompts == {<<"build", "python", "server", "logging">>,
                   <<"document", "mcp", "protocol">>,
                   <<"build", "fastapi", "server">>,
                   <<"fix", "it">>}

\* word.length
Chars(w) ==
    CASE w \in {"it"} -> 2
      [] w \in {"fix", "mcp", "api", "log"} -> 3
      [] w \in {"best"} -> 4
      [] w \in {"build", "guide"} -> 5
      [] w \in {"python", "server", "search"} -> 6
      [] w \in {"logging", "fastapi", "queries"} -> 7
      [] w \in {"document", "protocol", "tutorial", "official", "research"} -> 8
      [] w \in {"practices"} -> 9
      [] w \in {"development"} -> 11
      [] w \in {"specification", "documentation"} -> 13

\* String.prototype.includes / RegExp.test for a term inside one word
Contains(w, term) ==
    w = term \/ <<w, term>> \in {<<"logging", "log">>, <<"fastapi", "api">>}

\* text.includes(term)
Includes(words, term) == \E k \in 1..Len(words) : Contains(words[k], term)

\* words.includes(word), words.indexOf(word)
HasWord(words, w) == \E k \in 1..Len(words) : words[k] = w
IndexOf(words, w) == CHOOSE k \in 1..Len(words) :
                        words[k] = w /\ \A j \in 1..(k - 1) : words[j] # w

\* isStopWord of the categorizer
CategorizerStopWords ==
    {"the", "and", "for", "are", "but", "not", "you", "all", "can", "had",
     "her", "was", "one", "our", "out", "day", "get", "has", "him", "his",
     "how", "its", "may", "new", "now", "old", "see", "two", "who", "boy",
     "did", "use", "way", "she", "many", "oil", "sit", "set", "run", "eat",
     "help", "make", "need", "want", "with", "this", "that", "they", "have",
     "from", "know", "been", "good", "much", "some", "time",
     "very", "when", "come", "here", "just", "like", "long", "over", "also",
     "back", "call", "came", "each", "find", "give", "hand", "high", "keep",
     "last", "left", "life", "live", "look", "made", "most", "move", "must",
     "name", "never", "only", "open", "part", "place", "right", "said", "same",
     "seem", "show", "small", "sound", "still", "such", "take", "than", "them",
     "well", "went", "were", "what", "where", "which", "while", "will", "word",
     "work", "world", "would", "write", "year"}

IsStopWord(w) == w \in CategorizerStopWords

IsCommonSearchWord(w) ==
    w \in {"tutorial", "guide", "documentation", "best", "practices",
           "example", "how", "what", "where", "when", "why",
           "official", "latest", "current", "modern"}

IsSignificantWord(w) == Chars(w) > 2 /\ ~IsStopWord(w) /\ ~IsCommonSearchWord(w)

ExtractSignificantWords(text) == SelectSeq(text, IsSignificantWord)

IsLongWord(w) == Chars(w) > 3 /\ ~IsStopWord(w)

\* extractKeywords: [...new Set(words)].slice(0, 5)
ExtractKeywords(prompt) == Take(Dedup(SelectSeq(prompt, IsLongWord), {}), 5)

(***************************************************************************)
(* calculateRelevanceScore, in units of 1/12000 so that every ratio over   *)
(* at most 6 words and every weight is a whole number.                     *)
(***************************************************************************)
Languages == <<"python", "javascript", "typescript", "node", "js", "ts">>
TechTerms == {"api", "database", "framework", "library", "protocol", "specification"}

\* languages.find(lang => lowerPrompt.includes(lang))
PromptLang(prompt) ==
    LET found == SelectSeq(Languages, LAMBDA l : Includes(prompt, l))
    IN  IF found = <<>> THEN "" ELSE found[1]

\* in tenths
CalculateDomainSpecificBonus(searchQuery, prompt) ==
    LET both(term) == Includes(prompt, term) /\ Includes(searchQuery, term)
        bonus ==
            (IF both("mcp") THEN 5 ELSE 0)
          + (IF both("server") THEN 3 ELSE 0)
          + (IF /\ Includes(prompt, "log") \/ Includes(prompt, "thought")
                /\ Includes(searchQuery, "log") \/ Includes(searchQuery, "thought")
             THEN 3 ELSE 0)
          + (IF PromptLang(prompt) # "" /\ Includes(searchQuery, PromptLang(prompt))
             THEN 2 ELSE 0)
          + Cardinality({t \in TechTerms : both(t)})
    IN  Min(bonus, 10)

Max(a, b) == IF a > b THEN a ELSE b

\* positions.every((pos, i) => i === 0 || pos > positions[i - 1])
Increasing(words, within) ==
    \A i \in 2..Len(words) : IndexOf(within, words[i]) > IndexOf(within, words[i - 1])

\* in units of 1/12000 of the weighted sum: (overlapRatio + orderBonus) * 0.2
CalculateSemanticSimilarity(searchQuery, prompt) ==
    LET queryWords == ExtractSignificantWords(searchQuery)
        promptWords == ExtractSignificantWords(prompt)
        commonWords == SelectSeq(queryWords, LAMBDA w : HasWord(promptWords, w))
        orderBonus == IF /\ Len(commonWords) > 1
                         /\ Increasing(commonWords, queryWords)
                         /\ Increasing(commonWords, promptWords)
                      THEN 480 ELSE 0
    IN  IF Len(queryWords) = 0 \/ Len(promptWords) = 0 THEN 0
        ELSE (2400 * Len(commonWords)) \div Max(Len(queryWords), Len(promptWords))
             + orderBonus

\* in units of 1/12000 of the weighted sum: coverage * 0.1
CalculateCompletenessScore(searchQuery, prompt) ==
    LET queryWords == ExtractSignificantWords(searchQuery)
        promptWords == ExtractSignificantWords(prompt)
        coveredWords == SelectSeq(promptWords, LAMBDA w : HasWord(queryWords, w))
    IN  IF Len(promptWords) = 0 THEN 1200
        ELSE (1200 * Len(coveredWords)) \div Len(promptWords)

Range(q) == {q[k] : k \in 1..Len(q)}

CalculateRelevanceScore(searchQuery, prompt) ==
    LET originalTerms == Range(ExtractSignificantWords(prompt))
        queryTerms == Range(ExtractSignificantWords(searchQuery))
        exactMatches == originalTerms \cap queryTerms
        score == (4800 * Cardinality(exactMatches)) \div Max(Cardinality(originalTerms), 1)
                 + 360 * CalculateDomainSpecificBonus(searchQuery, prompt)
                 + CalculateSemanticSimilarity(searchQuery, prompt)
                 + CalculateCompletenessScore(searchQuery, prompt)
    IN  Min(score, 12000)

WebSearchQuery(text, category, prio) ==
    [query |-> text, category |-> category, priority |-> prio]

Scored(q, prompt) ==
    [query |-> q.query, category |-> q.category, priority |-> q.priority,
     relevance_score |-> CalculateRelevanceScore(q.query, prompt)]

\* scoreAndRankQueries: a single query is returned as it is
ScoreAndRankQueries(queries, prompt) ==
    IF Len(queries) <= 1 THEN queries
    ELSE SortByRelevance([k \in 1..Len(queries) |-> Scored(queries[k], prompt)])

\* the lines the LLM may answer with
Line(mark, quoted, words) == [mark |-> mark, quoted |-> quoted, words |-> words]

LineServerLogging == Line("", FALSE, <<"server", "logging", "best", "practices">>)
LinePythonServer == Line("1.", TRUE, <<"python", "server", "logging", "tutorial">>)
LineMcp == Line("", FALSE, <<"mcp", "protocol", "specification", "documentation">>)
LinePythonGuide == Line("", FALSE, <<"python", "official", "guide">>)
LineHeading == Line("#", FALSE, <<"search", "queries">>)
LineBullet == Line("*", FALSE, <<"python", "server", "logging", "tutorial">>)
LineShort == Line("", FALSE, <<"python">>)
LineEmpty == Line("", FALSE, <<>>)

\* what searchQueryProvider.generate can do: reject, answer without a text,
\* or answer with lines
LlmOutcomes ==
    {[kind |-> "raised", lines |-> <<>>], [kind |-> "malformed", lines |-> <<>>]} \cup
    [kind : {"answered"},
     lines : {<<>>, <<LineEmpty>>, <<LineHeading, LineBullet>>, <<LineShort>>,
              <<LinePythonServer>>, <<LineServerLogging, LinePythonServer>>,
              <<LineHeading, LinePythonGuide, LineMcp, LinePythonServer, LineServerLogging>>,
              <<LineShort, LineMcp, LineServerLogging, LinePythonServer>>}]

NoLlm == [kind |-> "none", lines |-> <<>>]

\* .filter(line => line && !line.startsWith('#') && !line.startsWith('*'))
IsCandidateLine(l) == l.words # <<>> /\ l.mark \notin {"#", "*"}

RECURSIVE SumChars(_)
SumChars(words) == IF words = <<>> THEN 0 ELSE Chars(Head(words)) + SumChars(Tail(words))

\* query.length after the numbering and the quotes are removed
QueryLength(words) == SumChars(words) + Len(words) - 1

\* query.length > 10 && query.length < 200
IsUsableQuery(l) == QueryLength(l.words) > 10 /\ QueryLength(l.words) < 200

\* the for loop of parseSearchQueriesFromResponse over the first 3 lines
Candidates(lines, category) ==
    LET first == Take(SelectSeq(lines, IsCandidateLine), 3)
        usable == SelectSeq(first, IsUsableQuery)
    IN  [k \in 1..Len(usable) |-> WebSearchQuery(usable[k].words, category, 0)]

\* scoredQueries.forEach((query, index) => { query.priority = index + 1 })
AssignPriority(queries) ==
    [k \in 1..Len(queries) |-> [queries[k] EXCEPT !.priority = k]]

\* parseSearchQueriesFromResponse; response.split throws on an answer without
\* a text and the catch returns the queries collected so far: none
ParseSearchQueriesFromResponse(llm, category, prompt) ==
    IF llm.kind = "malformed" THEN <<>>
    ELSE AssignPriority(ScoreAndRankQueries(Candidates(llm.lines, category), prompt))

IsTechKeyword(kw) ==
    kw \in {"javascript", "typescript", "python", "react", "node", "api", "server",
            "database", "framework", "library"}

GenerateCodingSearchQueries(keywords) ==
    LET techKeywords == SelectSeq(keywords, IsTechKeyword)
        mainTech == techKeywords[1]
        first == WebSearchQuery(<<mainTech, "best", "practices", "documentation">>,
                                CodingCategory, 1)
        second == WebSearchQuery(<<mainTech, "server", "development", "tutorial">>,
                                 CodingCategory, 2)
    IN  IF techKeywords = <<>> THEN <<>>
        ELSE IF \/ Includes(keywords, "server") \/ Includes(keywords, "api")
                \/ Includes(keywords, "backend")
             THEN <<first, second>>
             ELSE <<first>>

GenerateDocumentationSearchQueries(keywords) ==
    LET mcp == IF Includes(keywords, "mcp")
               THEN <<WebSearchQuery(<<"mcp", "model", "context", "protocol",
                                       "specification", "documentation">>,
                                     DocumentationCategory, 1)>>
               ELSE <<>>
        main == IF keywords = <<>> THEN <<>>
                ELSE <<WebSearchQuery(<<keywords[1], "official", "documentation">>,
                                      DocumentationCategory, 2)>>
    IN  mcp \o main

GenerateResearchSearchQueries(keywords) ==
    LET mainKeywords == Take(keywords, 2)
    IN  IF mainKeywords = <<>> THEN <<>>
        ELSE <<WebSearchQuery(mainKeywords \o <<"research", "guide">>, ResearchCategory, 1),
               WebSearchQuery(mainKeywords \o <<"best", "practices", "tutorial">>,
                              ResearchCategory, 2)>>

GenerateGenericSearchQueries(keywords, category) ==
    LET mainKeywords == Take(keywords, 3)
    IN  IF mainKeywords = <<>> THEN <<>>
        ELSE <<WebSearchQuery(mainKeywords \o <<"best", "practices">>, category, 1)>>

\* generateFallbackSearchQueries: the templates of the top category, 2 at most
GenerateFallbackSearchQueries(prompt, categories) ==
    LET keywords == ExtractKeywords(prompt)
        name == ToLowerCase(categories[1])
        queries ==
            CASE name = "code generation & debugging" ->
                    GenerateCodingSearchQueries(keywords)
              [] name = "technical documentation" ->
                    GenerateDocumentationSearchQueries(keywords)
              [] name = "research & information synthesis" ->
                    GenerateResearchSearchQueries(keywords)
              [] OTHER -> GenerateGenericSearchQueries(keywords, categories[1])
    IN  IF categories = <<>> THEN <<>> ELSE Take(queries, 2)

\* generateSearchQueries: the answer of the LLM parsed, the templates when
\* generate() rejects
GenerateSearchQueries(prompt, categories, llm) ==
    IF llm.kind = "raised" THEN GenerateFallbackSearchQueries(prompt, categories)
    ELSE ParseSearchQueriesFromResponse(llm, categories[1], prompt)

\* what tagger.categorize can do
TaggerOutcomes ==
    [threw : {TRUE}, categories : {<<>>}] \cup
    [threw : {FALSE},
     categories : {<<>>, <<CodingCategory>>, <<DocumentationCategory, CodingCategory>>,
                   <<ResearchCategory>>, <<CreativeCategory>>}]

\* TaskCategorizer.categorizeTask: its catch returns [] when the tagger fails
CategorizeTaskRethrows(t) == [threw |-> t.threw, categories |-> t.categories]

CategorizeTask(t) ==
    [threw |-> FALSE, categories |-> IF t.threw THEN <<>> ELSE t.categories]

NoPlanLog == [tagger |-> [threw |-> FALSE, categories |-> <<>>], llm |-> NoLlm,
              path |-> "none"]

\* this.searchQueryProvider && this.searchQueryModel && categories.length > 0
UsesLlm(cfg, categories) == cfg /\ Len(categories) > 0

\* categorizeTaskWithWebSearch is called and awaits categorizeTask; when that
\* throws, the catch block awaits categorizeTask once more
CategorizeTaskWithWebSearch(p, t, again) ==
    LET first == CategorizeTask(t)
        second == CategorizeTask(again)
    IN  /\ ppc = "idle"
        /\ planPrompt' = p
        /\ planLog' = [planLog EXCEPT !.tagger = t]
        /\ IF ~first.threw
           THEN /\ ppc' = "generate"
                /\ planCategories' = first.categories
                /\ planned' = planned
           ELSE IF ~second.threw
           THEN /\ ppc' = "returned"
                /\ planCategories' = second.categories
                /\ planned' = [categories |-> second.categories,
                               suggested_search_queries |-> <<>>]
           ELSE /\ ppc' = "raised"
                /\ UNCHANGED <<planCategories, planned>>
        /\ UNCHANGED searchQueryConfig
        /\ UNCHANGED nonPlannerVars

\* the LLM path: generateSearchQueries, then the return
GenerateWithLlm(llm) ==
    /\ ppc = "generate"
    /\ UsesLlm(searchQueryConfig, planCategories)
    /\ ppc' = "returned"
    /\ planLog' = [planLog EXCEPT !.llm = llm,
                      !.path = IF llm.kind = "raised" THEN "rules" ELSE "llm"]
    /\ planned' = [categories |-> planCategories,
                   suggested_search_queries |->
                       GenerateSearchQueries(planPrompt, planCategories, llm)]
    /\ UNCHANGED <<searchQueryConfig, planPrompt, planCategories>>
    /\ UNCHANGED nonPlannerVars

\* the rule-based path: generateFallbackSearchQueries, then the return
GenerateByRules ==
    /\ ppc = "generate"
    /\ ~UsesLlm(searchQueryConfig, planCategories)
    /\ ppc' = "returned"
    /\ planLog' = [planLog EXCEPT !.path = "rules"]
    /\ planned' = [categories |-> planCategories,
                   suggested_search_queries |->
                       GenerateFallbackSearchQueries(planPrompt, planCategories)]
    /\ UNCHANGED <<searchQueryConfig, planPrompt, planCategories>>
    /\ UNCHANGED nonPlannerVars

NextPlan ==
    \/ \E p \in PlannerPrompts, t \in TaggerOutcomes, again \in TaggerOutcomes :
            CategorizeTaskWithWebSearch(p, t, again)
    \/ \E llm \in LlmOutcomes : GenerateWithLlm(llm)
    \/ GenerateByRules

(***************************************************************************)
(* The one BrowserPoolManager of a service, used by the scrapeUrl calls of *)
(* invocations that run at the same time, and cleanup() of the service.    *)
(***************************************************************************)
PoolInvocations == {1, 2}
MaxCleanups == 2
MaxPoolTicks == 2

\* the times of the sessions the map holds; a deleted session has none
TimesOf(ids) == [id \in SessionIds |-> IF id \in ids THEN lastRequestTime[id] ELSE 0]

IdleScraper == [pc |-> "idle", sessionId |-> 0]

NoCleanup == [calls |-> 0, inFlight |-> FALSE, before |-> {}, after |-> {},
              prevAfter |-> {}, raised |-> FALSE]

\* scrapeUrl of invocation a awaits createStealthBrowser
ScrapeUrlCreates(a, launches) ==
    /\ scrapers[a].pc = "idle"
    /\ nextSessionId <= MaxSessions
    /\ IF FirstSuccess(launches) # 0
       THEN /\ browsers' = browsers \cup {nextSessionId}
            /\ sessions' = sessions \cup {nextSessionId}
            /\ lastRequestTime' = [lastRequestTime EXCEPT ![nextSessionId] = clock]
            /\ scrapers' = [scrapers EXCEPT
                               ![a] = [pc |-> "inSession", sessionId |-> nextSessionId]]
            /\ nextSessionId' = nextSessionId + 1
       ELSE UNCHANGED <<browsers, sessions, lastRequestTime, scrapers, nextSessionId>>
    /\ UNCHANGED <<closeCalls, environmentInfo, created, cleanupLog>>
    /\ UNCHANGED nonPoolVars

\* incrementRequestCount(sessionId) after the navigation
IncrementRequestCount(a) ==
    /\ scrapers[a].pc = "inSession"
    /\ scrapers[a].sessionId \in sessions
    /\ lastRequestTime[scrapers[a].sessionId] # clock
    /\ lastRequestTime' = [lastRequestTime EXCEPT ![scrapers[a].sessionId] = clock]
    /\ UNCHANGED <<scrapers, cleanupLog, poolVars>>
    /\ UNCHANGED nonPoolVars

\* the finally block of scrapeUrl of invocation a
ScrapeUrlCloses(a, closeOk) ==
    /\ scrapers[a].pc = "inSession"
    /\ browsers' = BrowsersAfterClose(scrapers[a].sessionId, closeOk)
    /\ sessions' = SessionsAfterClose(scrapers[a].sessionId, closeOk)
    /\ closeCalls' = [closeCalls EXCEPT ![scrapers[a].sessionId] = @ + 1]
    /\ scrapers' = [scrapers EXCEPT ![a] = IdleScraper]
    /\ lastRequestTime' = TimesOf(SessionsAfterClose(scrapers[a].sessionId, closeOk))
    /\ UNCHANGED <<nextSessionId, environmentInfo, created, cleanupLog>>
    /\ UNCHANGED nonPoolVars

\* cleanupOldSessions: now - session.last_request_time > maxAgeMs
OldSessions(maxAgeMs) ==
    {id \in sessions : (clock - lastRequestTime[id]) * MsPerTick > maxAgeMs}

\* EnhancedPromptService.cleanup(): contentScraper.cleanup() runs
\* cleanupOldSessions(0), closeBrowser for every old session; closeOk says
\* for which sessions browser.close() resolves
Cleanup(closeOk) ==
    LET old == OldSessions(0)
    IN  /\ cleanupLog.calls < MaxCleanups
        /\ browsers' = browsers \ {id \in old : closeOk[id]}
        /\ sessions' = sessions \ {id \in old : id \notin browsers \/ closeOk[id]}
        /\ closeCalls' = [id \in SessionIds |->
                             IF id \in old THEN closeCalls[id] + 1 ELSE closeCalls[id]]
        /\ cleanupLog' = [calls |-> cleanupLog.calls + 1,
                          inFlight |-> \E a \in PoolInvocations : scrapers[a].pc # "idle",
                          before |-> sessions,
                          after |-> sessions \ {id \in old : id \notin browsers \/ closeOk[id]},
                          prevAfter |-> cleanupLog.after,
                          raised |-> FALSE]
        /\ lastRequestTime' =
              TimesOf(sessions \ {id \in old : id \notin browsers \/ closeOk[id]})
        /\ UNCHANGED <<nextSessionId, environmentInfo, created, scrapers>>
        /\ UNCHANGED nonPoolVars

\* Date.now() moves on
TimePasses ==
    /\ clock < StartClock + MaxPoolTicks
    /\ clock' = clock + 1
    /\ UNCHANGED <<config, rateLimitInfo, callers, spc, attempt, wakeAt, sent, waits,
                   lastResp, onlyRL, backend, outcome, searchesDone, sendLog>>
    /\ UNCHANGED nonSearchVars

NextPool ==
    \/ \E a \in PoolInvocations, launches \in [1..NumStrategies -> {LaunchOk, "spawn ENOENT"}] :
            ScrapeUrlCreates(a, launches)
    \/ \E a \in PoolInvocations : IncrementRequestCount(a)
    \/ \E a \in PoolInvocations, closeOk \in BOOLEAN : ScrapeUrlCloses(a, closeOk)
    \/ \E closeOk \in [SessionIds -> BOOLEAN] : Cleanup(closeOk)
    \/ TimePasses

(***************************************************************************)
(* One invocation in which every collaborator works and the pages differ   *)
(* in length and metadata, so that the scores of searchAndScrapeContent    *)
(* can be equal for pages of different URLs.                               *)
(***************************************************************************)
RankPageOutcomes == {Threw("extractionFailed"), Page(60, TRUE, FALSE, ""),
                     Page(300, TRUE, TRUE, "Guide"), Page(300, TRUE, FALSE, "")}

RankSearchOutcomes ==
    [raised : {FALSE}, urls : {<<UrlGithub, UrlBlog, UrlPlain>>,
                               <<UrlPlain, UrlBlog, UrlGithub, UrlDocs>>}]

NextRank ==
    \/ \E mc \in {0, 4} :
            Invoke(<<"build", "fastapi", "server">>,
                   [enable_web_search |-> "undefined", max_scraped_content |-> mc])
    \/ Categorize([threw |-> FALSE, categories |-> <<"code_generation">>,
                   suggested_search_queries |-> <<Query(<<"q1">>, 1)>>])
    \/ \E o \in RankSearchOutcomes : Search(o)
    \/ CreateStealthBrowser([s \in 1..NumStrategies |-> LaunchOk])
    \/ \E o \in RankPageOutcomes : UsePage(o)
    \/ CloseBrowser(TRUE)
    \/ FinishScrape
    \/ Enhance("enhanced")

(***************************************************************************)
(* CacheService (over node-cache) and PromptEnhancerMCPServer              *)
(***************************************************************************)

MaxCalls == 3

\* the requests the server can be handling at one time
AllHandlers == {1, 2}

\* a client that waits for each answer before it sends its next request
OneSlot == {1}

HandlerPrompts == {<<"Aa">>, <<"fix", "it">>}

\* the prompt as the string the server receives: its words, a space between them
RECURSIVE PromptText(_)
PromptText(p) ==
    IF Len(p) = 0 THEN <<>>
    ELSE IF Len(p) = 1 THEN WordCodes(p[1])
    ELSE WordCodes(p[1]) \o <<32>> \o PromptText(Tail(p))

\* one turn of the loop of hash(): hash = ((hash << 5) - hash) + char; hash = hash & hash.
\* The 32-bit value is kept as <<high 16 bits, low 16 bits>>.
HashStep(h, char) ==
    LET lo == 31 * h[2] + char
        hi == 31 * h[1] + lo \div 65536
    IN  <<hi % 65536, lo % 65536>>

RECURSIVE HashFrom(_, _, _)
HashFrom(h, input, i) ==
    IF i > Len(input) THEN h ELSE HashFrom(HashStep(h, input[i]), input, i + 1)

\* Math.abs of the signed reading of the 32 bits
Abs32(h) ==
    IF h[1] < 32768 THEN h
    ELSE <<(65535 - h[1] + (IF h[2] = 0 THEN 1 ELSE 0)) % 65536, (65536 - h[2]) % 65536>>

RECURSIVE HexDigits(_)
HexDigits(n) == IF n < 16 THEN <<n>> ELSE Append(HexDigits(n \div 16), n % 16)

\* toString(16): the hex digits, most significant first, no leading zero
ToString16(h) ==
    IF h[1] = 0 THEN HexDigits(h[2])
    ELSE LET low == HexDigits(h[2])
         IN  HexDigits(h[1]) \o [i \in 1..(4 - Len(low)) |-> 0] \o low

\* hash(input)
Hash(input) ==
    IF Len(input) = 0 THEN <<0>> ELSE ToString16(Abs32(HashFrom(<<0, 0>>, input, 1)))

GenerateCategoryKey(p) == [prefix |-> "categories", hash |-> Hash(PromptText(p))]

GenerateEnhancementKey(p) == [prefix |-> "enhancement", hash |-> Hash(PromptText(p))]

\* Date.now()
Now == clock * MsPerTick

EmptyCache == [k \in {} |-> 0]

\* NodeCache.get finds the key and its time to live has not run out
LiveNever(c, key) == FALSE

Live(c, key) == key \in DOMAIN c /\ c[key].t >= Now

\* the cache after getCached...(): an entry found gets hit_count++, one whose
\* time has run out is deleted by NodeCache.get
AfterGet(c, key) ==
    IF key \notin DOMAIN c THEN c
    ELSE IF Live(c, key) THEN [c EXCEPT ![key].hit_count = @ + 1]
    ELSE [k \in DOMAIN c \ {key} |-> c[k]]

\* NodeCache.set throws ECACHEFULL once maxKeys keys are held
CacheFull(c) == Cardinality(DOMAIN c) >= cacheConfig.max_size

\* cacheCategories / cacheEnhancement: a new CacheEntry under the key
CacheSet(c, key, value) ==
    [k \in DOMAIN c \cup {key} |->
        IF k = key
        THEN [value |-> value, timestamp |-> Now, ttl |-> cacheConfig.ttl,
              hit_count |-> 0, t |-> Now + cacheConfig.ttl * MsPerSecond]
        ELSE c[k]]

IdleHandler == [pc |-> "idle", prompt |-> <<>>, enable_web_search |-> "undefined",
                categories |-> <<>>, at |-> 0]

\* the options handleProcessPrompt passes on: enable_web_search ?? true
HandlerOptions(hd) ==
    [enable_web_search |-> IF hd.enable_web_search = "undefined" THEN "true"
                           ELSE hd.enable_web_search,
     max_scraped_content |-> 0]

\* EnhancedPromptWithContext turned into an EnhancementResult
ToEnhancementResult(r) ==
    [original_prompt |-> r.original_prompt, enhanced_prompt |-> r.enhanced_prompt,
     categories |-> r.categories, model_used |-> "enhanced-with-web-context",
     quality_score |-> IF Len(r.web_context) > 0 THEN 9 ELSE 7]

\* the result when the server has no prompt service
NoServiceResult(p, categories) ==
    [original_prompt |-> p,
     enhanced_prompt |-> [enhanced |-> FALSE, prompt |-> PromptOnly(p)],
     categories |-> categories, model_used |-> "", quality_score |-> 0]

\* one line of the history; ews is options.enable_web_search of the request
Event(kind, p, at, fromCache, ranPipeline, success, r, expires, ews) ==
    [kind |-> kind, prompt |-> p, at |-> at, fromCache |-> fromCache,
     ranPipeline |-> ranPipeline, success |-> success, result |-> r,
     expires |-> expires, enable_web_search |-> ews]

\* catch (error): { success: false }
Failure(hd, ranPipeline) ==
    Event("process_prompt", hd.prompt, hd.at, FALSE, ranPipeline, FALSE, NoResult, 0,
          hd.enable_web_search)

\* a result whose enhanced_prompt is the original prompt
Degraded(r) == r.enhanced_prompt = [enhanced |-> FALSE, prompt |-> PromptOnly(r.original_prompt)]

\* a server that stores a result only when the prompt was enhanced
CacheEnhancementUnlessDegraded(c, hd, r, ranPipeline) ==
    [cache |-> IF CacheFull(c) \/ Degraded(r) THEN c
               ELSE CacheSet(c, GenerateEnhancementKey(hd.prompt), r),
     hd |-> IdleHandler,
     ev |-> <<IF CacheFull(c) THEN Failure(hd, ranPipeline)
              ELSE Event("process_prompt", hd.prompt, hd.at, FALSE, ranPipeline, TRUE, r,
                         Now + cacheConfig.ttl * MsPerSecond, hd.enable_web_search)>>]

\* cacheEnhancement(prompt, result) and the answer, or the catch when set throws
CacheEnhancementAndRespond(c, hd, r, ranPipeline) ==
    IF CacheFull(c)
    THEN [cache |-> c, hd |-> IdleHandler, ev |-> <<Failure(hd, ranPipeline)>>]
    ELSE [cache |-> CacheSet(c, GenerateEnhancementKey(hd.prompt), r),
          hd |-> IdleHandler,
          ev |-> <<Event("process_prompt", hd.prompt, hd.at, FALSE, ranPipeline, TRUE, r,
                         Now + cacheConfig.ttl * MsPerSecond, hd.enable_web_search)>>]

\* step 3 of handleProcessPrompt up to its await, or to its end without a service
EnhanceStep(c, hd) ==
    IF promptService
    THEN [cache |-> c, hd |-> [hd EXCEPT !.pc = "enhancing"], ev |-> <<>>]
    ELSE CacheEnhancementAndRespond(c, hd, NoServiceResult(hd.prompt, hd.categories), FALSE)

\* the calls the history holds
Calls == SelectSeq(log, LAMBDA e : e.kind # "clear_cache")

\* no request is being handled
Quiescent == opc = "idle" /\ \A h \in handlers : handler[h].pc = "idle"

\* a client with one slot waits for each answer before it sends its next request
ClientReady == Cardinality(handlers) > 1 \/ Quiescent

\* the orchestration context of an invocation is dropped when it returns
ResetContext ==
    /\ opc' = "idle"
    /\ originalPrompt' = <<>>
    /\ options' = [enable_web_search |-> "undefined", max_scraped_content |-> 0]
    /\ categorization' = NoCategorization
    /\ searchQueries' = <<>>
    /\ qi' = 0
    /\ allUrls' = <<>>
    /\ uniqueUrls' = <<>>
    /\ si' = 0
    /\ results' = <<>>
    /\ sessionId' = 0
    /\ tryOutcome' = NoOutcome
    /\ attempted' = 0
    /\ failed' = {}
    /\ result' = NoResult
    /\ scrapeOptions' = DefaultOptions
    /\ searched' = <<>>
    /\ enhancerInput' = NoInput

\* handleProcessPrompt from its first line to its first await, or to its return
\* when the cache holds the enhancement
ProcessPrompt(h, p, ews) ==
    /\ h \in handlers
    /\ ClientReady
    /\ handler[h].pc = "idle"
    /\ Len(Calls) < MaxCalls
    /\ LET ekey == GenerateEnhancementKey(p)
           ckey == GenerateCategoryKey(p)
           c1 == AfterGet(cache, ekey)
           c2 == AfterGet(c1, ckey)
           hd == [pc |-> "categorizing", prompt |-> p, enable_web_search |-> ews,
                  categories |-> <<>>, at |-> clock]
           next == IF Live(cache, ekey)
                   THEN [cache |-> c1, hd |-> IdleHandler,
                         ev |-> <<Event("process_prompt", p, clock, TRUE, FALSE, TRUE,
                                        cache[ekey].value, cache[ekey].t, ews)>>]
                   ELSE IF Live(c1, ckey)
                   THEN EnhanceStep(c2, [hd EXCEPT !.categories = c1[ckey].value])
                   ELSE [cache |-> c2, hd |-> hd, ev |-> <<>>]
       IN  /\ cache' = next.cache
           /\ handler' = [handler EXCEPT ![h] = next.hd]
           /\ log' = log \o next.ev
    /\ UNCHANGED <<promptService, cacheConfig, handlers>>
    /\ UNCHANGED <<searchVars, poolVars, orchVars, auxVars>>

\* the handler's own categorizeTaskWithWebSearch returns or throws
CategorizeReturns(h, o) ==
    /\ h \in handlers
    /\ handler[h].pc = "categorizing"
    /\ LET hd == [handler[h] EXCEPT !.categories = o.categories]
           next == IF o.threw \/ CacheFull(cache)
                   THEN [cache |-> cache, hd |-> IdleHandler, ev |-> <<Failure(hd, FALSE)>>]
                   ELSE EnhanceStep(CacheSet(cache, GenerateCategoryKey(hd.prompt),
                                             o.categories), hd)
       IN  /\ cache' = next.cache
           /\ handler' = [handler EXCEPT ![h] = next.hd]
           /\ log' = log \o next.ev
    /\ UNCHANGED <<promptService, cacheConfig, handlers>>
    /\ UNCHANGED <<searchVars, poolVars, orchVars, auxVars>>

\* the handler calls promptService.enhancePromptWithWebContext
CallPromptService(h) ==
    /\ h \in handlers
    /\ handler[h].pc = "enhancing"
    /\ Invoke(handler[h].prompt, HandlerOptions(handler[h]))

\* enhancePromptWithWebContext has returned to the handler
PromptServiceReturns(h) ==
    /\ h \in handlers
    /\ handler[h].pc = "enhancing"
    /\ opc = "done"
    /\ LET next == CacheEnhancementAndRespond(cache, handler[h],
                                              ToEnhancementResult(result), TRUE)
       IN  /\ cache' = next.cache
           /\ handler' = [handler EXCEPT ![h] = next.hd]
           /\ log' = log \o next.ev
    /\ ResetContext
    /\ UNCHANGED <<promptService, cacheConfig, handlers>>
    /\ UNCHANGED <<searchVars, poolVars, auxVars>>

\* where no server stands before the prompt service, its user calls
\* enhancePromptWithWebContext itself
CallDirectly(p, opts) ==
    /\ promptService
    /\ handlers = {}
    /\ ClientReady
    /\ \A h \in handlers : handler[h].pc # "enhancing"
    /\ Len(Calls) < MaxCalls
    /\ Invoke(p, opts)

\* and gets its result
DirectReturn ==
    /\ \A h \in handlers : handler[h].pc # "enhancing"
    /\ opc = "done"
    /\ log' = Append(log, Event("enhancePromptWithWebContext", originalPrompt, clock,
                                FALSE, TRUE, TRUE, result, 0,
                                options.enable_web_search))
    /\ ResetContext
    /\ UNCHANGED <<promptService, cacheConfig, cache, handlers, handler>>
    /\ UNCHANGED <<searchVars, poolVars, auxVars>>

\* handleClearCache: cacheService.clear()
ClearCache ==
    /\ ClientReady
    /\ cache' = EmptyCache
    /\ log' = IF Len(log) > 0 /\ log[Len(log)].kind = "clear_cache" THEN log
              ELSE Append(log, Event("clear_cache", <<>>, 0, FALSE, FALSE, TRUE, NoResult, 0,
                                     "undefined"))
    /\ UNCHANGED <<promptService, cacheConfig, handlers, handler>>
    /\ UNCHANGED <<searchVars, poolVars, orchVars, auxVars>>

\* time passes until what the cache was given a moment ago has run out
TtlElapses ==
    /\ clock + CeilDiv(cacheConfig.ttl * MsPerSecond, MsPerTick) + 1 <= StartClock + Horizon
    /\ clock' = clock + CeilDiv(cacheConfig.ttl * MsPerSecond, MsPerTick) + 1
    /\ UNCHANGED <<config, rateLimitInfo, callers, spc, attempt, wakeAt, sent, waits,
                   lastResp, onlyRL, backend, outcome, searchesDone, sendLog>>
    /\ UNCHANGED nonSearchVars

\* the checkperiod timer of NodeCache deletes the keys whose time has run out
CheckData ==
    /\ \E k \in DOMAIN cache : ~Live(cache, k)
    /\ cache' = [k \in {x \in DOMAIN cache : Live(cache, x)} |-> cache[k]]
    /\ UNCHANGED <<promptService, cacheConfig, handlers, handler, log>>
    /\ UNCHANGED <<searchVars, poolVars, orchVars, auxVars>>

\* the handler's categorizer may fail; inside the pipeline every collaborator
\* but the enhancer works, and one search gives one page
HandlerPlannerOutcomes ==
    {[threw |-> TRUE, categories |-> <<>>, suggested_search_queries |-> <<>>],
     [threw |-> FALSE, categories |-> <<"code_generation">>,
      suggested_search_queries |-> <<Query(<<"q1">>, 1)>>]}

NextCacheSeq ==
    \/ \E h \in AllHandlers, p \in HandlerPrompts : ProcessPrompt(h, p, "undefined")
    \/ \E h \in AllHandlers, o \in HandlerPlannerOutcomes : CategorizeReturns(h, o)
    \/ \E h \in AllHandlers : CallPromptService(h)
    \/ \E h \in AllHandlers : PromptServiceReturns(h)
    \/ CallDirectly(<<"fix", "it">>, HandlerOptions(IdleHandler))
    \/ DirectReturn
    \/ ClearCache
    \/ CheckData
    \/ TtlElapses
    \/ \E o \in {x \in HandlerPlannerOutcomes : ~x.threw} : Categorize(o)
    \/ Search([raised |-> FALSE, urls |-> <<UrlGithub>>])
    \/ CreateStealthBrowser([s \in 1..NumStrategies |-> LaunchOk])
    \/ UsePage(Page(60, TRUE, FALSE, ""))
    \/ CloseBrowser(TRUE)
    \/ FinishScrape
    \/ \E o \in {"enhanced", "raised"} : Enhance(o)

\* the server's clients set options.enable_web_search, or leave it out
EnableWebSearchValues == {"undefined", "true", "false"}

NextCacheOptions ==
    \/ \E h \in AllHandlers, ews \in EnableWebSearchValues :
            ProcessPrompt(h, <<"fix", "it">>, ews)
    \/ \E h \in AllHandlers, o \in HandlerPlannerOutcomes : CategorizeReturns(h, o)
    \/ \E h \in AllHandlers : CallPromptService(h)
    \/ \E h \in AllHandlers : PromptServiceReturns(h)
    \/ ClearCache
    \/ CheckData
    \/ TtlElapses
    \/ \E o \in {x \in HandlerPlannerOutcomes : ~x.threw} : Categorize(o)
    \/ Search([raised |-> FALSE, urls |-> <<UrlGithub>>])
    \/ CreateStealthBrowser([s \in 1..NumStrategies |-> LaunchOk])
    \/ UsePage(Page(60, TRUE, FALSE, ""))
    \/ CloseBrowser(TRUE)
    \/ FinishScrape
    \/ \E o \in {"enhanced", "raised"} : Enhance(o)

\* one invocation of enhancePromptWithWebContext is followed at a time: a request
\* comes to its call of the prompt service when no other request is inside it
OneInvocation == Cardinality({h \in handlers : handler[h].pc = "enhancing"}) <= 1

ProcessPromptInTurn(h, p, ews) == ProcessPrompt(h, p, ews) /\ OneInvocation'

CategorizeReturnsInTurn(h, o) == CategorizeReturns(h, o) /\ OneInvocation'

\* two requests with the same prompt, the second sent while the first is handled;
\* nothing is cleared and no time to live runs out
NextCacheConc ==
    \/ \E h \in AllHandlers : ProcessPromptInTurn(h, <<"fix", "it">>, "undefined")
    \/ \E h \in AllHandlers, o \in HandlerPlannerOutcomes : CategorizeReturnsInTurn(h, o)
    \/ \E h \in AllHandlers : CallPromptService(h)
    \/ \E h \in AllHandlers : PromptServiceReturns(h)
    \/ \E o \in {x \in HandlerPlannerOutcomes : ~x.threw} : Categorize(o)
    \/ Search([raised |-> FALSE, urls |-> <<UrlGithub>>])
    \/ CreateStealthBrowser([s \in 1..NumStrategies |-> LaunchOk])
    \/ UsePage(Page(60, TRUE, FALSE, ""))
    \/ CloseBrowser(TRUE)
    \/ FinishScrape
    \/ \E o \in {"enhanced", "raised"} : Enhance(o)

(***************************************************************************)
(* CacheService used directly: set, get and resize.                        *)
(***************************************************************************)

CacheKeys == {"a", "b", "c"}

NoResize == [calls |-> 0, maxSize |-> 0]

\* CacheService.set(key, value): NodeCache.set throws when maxKeys are held
Set(key) ==
    /\ ~CacheFull(cache)
    /\ cache' = CacheSet(cache, key, <<"v">>)
    /\ UNCHANGED <<promptService, cacheConfig, handlers, handler, log, resizeLog>>
    /\ UNCHANGED nonCacheVars

\* CacheService.get(key)
Get(key) ==
    /\ key \in DOMAIN cache
    /\ Live(cache, key) => cache[key].hit_count < MaxCalls - 1
    /\ cache' = AfterGet(cache, key)
    /\ UNCHANGED <<promptService, cacheConfig, handlers, handler, log, resizeLog>>
    /\ UNCHANGED nonCacheVars

\* the sort key of resize
Rank(entry) == entry.timestamp + entry.hit_count

\* entries.slice(0, count) of the entries sorted by Rank; which of two
\* entries of one rank comes first is the order of keys(), which the model
\* does not keep
LowestRanked(c, entries, count) ==
    {r \in SUBSET entries :
        /\ Cardinality(r) = Min(count, Cardinality(entries))
        /\ \A x \in r, k \in entries \ r : Rank(c[x]) <= Rank(c[k])}

\* CacheService.resize(maxSize); keys() counts the entries whose time has run
\* out and that NodeCache has not deleted yet, get(key) deletes such an entry
\* and returns undefined
Resize(maxSize, toRemove) ==
    LET keys == DOMAIN cache
        currentSize == Cardinality(keys)
        entries == {k \in keys : Live(cache, k)}
    IN  /\ resizeLog.calls < MaxCalls
        /\ IF currentSize > maxSize
           THEN /\ toRemove \in LowestRanked(cache, entries, currentSize - maxSize)
                /\ cache' = [k \in entries \ toRemove |-> cache[k]]
           ELSE /\ toRemove = {}
                /\ cache' = cache
        /\ resizeLog' = [calls |-> resizeLog.calls + 1, maxSize |-> maxSize]
        /\ UNCHANGED <<promptService, cacheConfig, handlers, handler, log>>
        /\ UNCHANGED nonCacheVars

NextResize ==
    \/ \E key \in CacheKeys : Set(key)
    \/ \E key \in CacheKeys : Get(key)
    \/ \E maxSize \in 0..Cardinality(CacheKeys), toRemove \in SUBSET CacheKeys :
            Resize(maxSize, toRemove)
    \/ CheckData
    \/ Tick
    \/ TtlElapses

(***************************************************************************)
(* createContextualPrompt: the text after the `Content:` label.  A string  *)
(* is the sequence of its character codes.                                 *)
(***************************************************************************)

MaxContentLength == 600
SummaryLimit == 500

Ellipsis == <<46, 46, 46>>

\* a scraped text of n characters
ContentOfLength(n) == [i \in 1..n |-> 97 + (i % 26)]

\* content.substring(0, k)
Substring0(content, k) == SubSeq(content, 1, Min(k, Len(content)))

SummaryWithoutEllipsis(content) == Substring0(content, SummaryLimit)

\* summary = content.length > 500 ? content.substring(0, 500) + '...' : content
Summary(content) ==
    IF Len(content) > SummaryLimit THEN Substring0(content, SummaryLimit) \o Ellipsis
    ELSE content

NoExcerpt == [content |-> <<>>, summary |-> <<>>, made |-> FALSE]

\* one turn of the forEach of createContextualPrompt, for a content of n characters
Summarise(n) ==
    /\ excerptLog' = [content |-> ContentOfLength(n),
                      summary |-> Summary(ContentOfLength(n)), made |-> TRUE]
    /\ UNCHANGED <<pace, enhanceRun, lookup>>
    /\ UNCHANGED nonSideVars

NextExcerpt == \E n \in 0..MaxContentLength : Summarise(n)

(***************************************************************************)
(* scrapeUrls followed in time.  Times are in milliseconds; the URLs are   *)
(* non-empty strings, so `if (!url) continue` is never taken.  A scrapeUrl *)
(* call returns a content that is kept, one that is too short, or null, or *)
(* it throws (createStealthBrowser, page setup, navigation).               *)
(***************************************************************************)

AttemptKinds == {"kept", "tooShort", "null", "threw"}

\* how long a scrapeUrl call may take
AttemptDurations == {0, 1500}

\* Math.random(), in thousandths
RandomThousandths == {0, 500, 999}

\* delay = 2000 + Math.random() * 3000
InterScrapeDelay(r) == 2000 + (r * 3000) \div 1000

NoPace == [pc |-> "idle", n |-> 0, i |-> 0, now |-> 0, began |-> <<>>, ended |-> <<>>,
           kinds |-> <<>>]

\* scrapeUrls(urls) is called with n URLs; urlsToScrape = urls.slice(0, 3)
PaceStart(n) ==
    /\ pace.pc = "idle"
    /\ pace' = [NoPace EXCEPT !.pc = "loop", !.n = Min(n, ScrapeUrlLimit)]
    /\ UNCHANGED <<excerptLog, enhanceRun, lookup>>
    /\ UNCHANGED nonSideVars

\* one turn of the loop up to the delay: `await this.scrapeUrl(url, opts)` and
\* the test of its value, or the catch block with its `continue`
PaceAttempt(kind, duration) ==
    /\ pace.pc = "loop"
    /\ pace.i < pace.n
    /\ pace' = [pace EXCEPT
                   !.began = Append(@, pace.now),
                   !.ended = Append(@, pace.now + duration),
                   !.kinds = Append(@, kind),
                   !.now = @ + duration,
                   !.pc = IF kind # "threw" /\ pace.i < pace.n - 1 THEN "delay" ELSE "loop",
                   !.i = IF kind # "threw" /\ pace.i < pace.n - 1 THEN @ ELSE @ + 1]
    /\ UNCHANGED <<excerptLog, enhanceRun, lookup>>
    /\ UNCHANGED nonSideVars

\* `await new Promise(resolve => setTimeout(resolve, delay))`, the end of the turn
PaceDelay(r) ==
    /\ pace.pc = "delay"
    /\ pace' = [pace EXCEPT !.now = @ + InterScrapeDelay(r), !.pc = "loop", !.i = @ + 1]
    /\ UNCHANGED <<excerptLog, enhanceRun, lookup>>
    /\ UNCHANGED nonSideVars

\* the loop is over, scrapeUrls returns
PaceReturn ==
    /\ pace.pc = "loop"
    /\ pace.i >= pace.n
    /\ pace' = [pace EXCEPT !.pc = "done"]
    /\ UNCHANGED <<excerptLog, enhanceRun, lookup>>
    /\ UNCHANGED nonSideVars

NextPace ==
    \/ \E n \in 0..(ScrapeUrlLimit + 1) : PaceStart(n)
    \/ \E kind \in AttemptKinds, duration \in AttemptDurations : PaceAttempt(kind, duration)
    \/ \E r \in RandomThousandths : PaceDelay(r)
    \/ PaceReturn

(***************************************************************************)
(* PromptEnhancer.enhancePrompt with the costs of its generate calls.      *)
(* Costs are in thousandths of a dollar, quality scores in tenths; an      *)
(* option that is 0 or left out is 0.  The strategies are the default      *)
(* three, so `strategy` is always defined.                                 *)
(***************************************************************************)

MaxCostPerCall == 30

DefaultMaxIterations == 2
DefaultQualityThreshold == 8
DefaultCostLimit == 10
MockQualityScore == 5

EnhancementOptions ==
    [max_iterations : {0, 1, 3}, quality_threshold : {0, 5}, cost_limit : {0, 20}]

\* response.cost of one generate call
CallCosts == {0, 1, 15, MaxCostPerCall}

\* options.x || default
OrDefault(x, default) == IF x = 0 THEN default ELSE x

NoEnhanceRun == [pc |-> "idle", maxIterations |-> 0, qualityThreshold |-> 0, costLimit |-> 0,
                 iterations |-> 0, totalCost |-> 0, appliedStrategies |-> 0,
                 qualityScore |-> 0, calls |-> <<>>, estimated_cost |-> 0]

\* enhancePrompt(originalPrompt, categories, options): the locals are set; without
\* a category it returns at once
EnhancePromptCalled(hasCategory, o) ==
    /\ enhanceRun.pc = "idle"
    /\ enhanceRun' = [NoEnhanceRun EXCEPT
                         !.pc = IF hasCategory THEN "loop" ELSE "returned",
                         !.maxIterations = OrDefault(o.max_iterations, DefaultMaxIterations),
                         !.qualityThreshold =
                             OrDefault(o.quality_threshold, DefaultQualityThreshold),
                         !.costLimit = OrDefault(o.cost_limit, DefaultCostLimit)]
    /\ UNCHANGED <<excerptLog, pace, lookup>>
    /\ UNCHANGED nonSideVars

\* totalCost > 0 and totalCost + totalCost / appliedStrategies.length > costLimit
EstimateExceedsLimit(run) ==
    /\ run.totalCost > 0
    /\ run.totalCost * (run.appliedStrategies + 1) > run.costLimit * run.appliedStrategies

\* the loop ends before another call: `iterations < maxIterations` is false, or
\* the estimate of the next call goes over the limit
LoopEnds ==
    /\ enhanceRun.pc = "loop"
    /\ enhanceRun.iterations >= enhanceRun.maxIterations \/ EstimateExceedsLimit(enhanceRun)
    /\ enhanceRun' = [enhanceRun EXCEPT !.pc = "returned", !.estimated_cost = enhanceRun.totalCost]
    /\ UNCHANGED <<excerptLog, pace, lookup>>
    /\ UNCHANGED nonSideVars

\* the locals after a generate call that answered with the cost `cost`
AfterGenerate(run, cost) ==
    LET total == run.totalCost + cost
        stop == total >= run.costLimit \/ MockQualityScore >= run.qualityThreshold
    IN  [run EXCEPT !.totalCost = total,
                    !.calls = Append(@, cost),
                    !.appliedStrategies = @ + 1,
                    !.qualityScore = MockQualityScore,
                    !.iterations = IF stop THEN @ ELSE @ + 1,
                    !.pc = IF stop THEN "returned" ELSE "loop",
                    !.estimated_cost = IF stop THEN total ELSE @]

\* one turn of the loop with its generate call, which answers or throws
GenerateTurn(threw, cost) ==
    /\ enhanceRun.pc = "loop"
    /\ enhanceRun.iterations < enhanceRun.maxIterations
    /\ ~EstimateExceedsLimit(enhanceRun)
    /\ enhanceRun' = IF threw
                     THEN [enhanceRun EXCEPT !.pc = "returned",
                                             !.estimated_cost = enhanceRun.totalCost]
                     ELSE AfterGenerate(enhanceRun, cost)
    /\ UNCHANGED <<excerptLog, pace, lookup>>
    /\ UNCHANGED nonSideVars

NextEnhancePrompt ==
    \/ \E hasCategory \in BOOLEAN, o \in EnhancementOptions : EnhancePromptCalled(hasCategory, o)
    \/ LoopEnds
    \/ \E cost \in CallCosts : GenerateTurn(FALSE, cost)
    \/ GenerateTurn(TRUE, 0)

(***************************************************************************)
(* CacheService used directly: cacheEnhancement and getCachedEnhancement.  *)
(***************************************************************************)

KeyPrompts == {<<"Aa">>, <<"BB">>, <<"fix", "it">>, <<"build", "fastapi", "server">>}

\* the EnhancementResult computed for the prompt p
ResultFor(p) == [original_prompt |-> p]

Null == [null |-> TRUE]

NoLookup == [stored |-> {}, asked |-> FALSE, prompt |-> <<>>, returned |-> Null]

\* cacheEnhancement(p, v)
CacheEnhancement(p) ==
    /\ ~CacheFull(cache)
    /\ cache' = CacheSet(cache, GenerateEnhancementKey(p), ResultFor(p))
    /\ lookup' = [lookup EXCEPT !.stored = @ \cup {p}]
    /\ UNCHANGED <<promptService, cacheConfig, handlers, handler, log, resizeLog>>
    /\ UNCHANGED <<excerptLog, pace, enhanceRun>>
    /\ UNCHANGED <<searchVars, poolVars, orchVars, plannerVars, sharedPoolVars>>

\* getCachedEnhancement(q)
GetCachedEnhancement(q) ==
    LET key == GenerateEnhancementKey(q)
    IN  /\ Live(cache, key) => cache[key].hit_count < MaxCalls - 1
        /\ cache' = AfterGet(cache, key)
        /\ lookup' = [lookup EXCEPT !.asked = TRUE, !.prompt = q,
                                    !.returned = IF Live(cache, key) THEN cache[key].value
                                                 ELSE Null]
        /\ UNCHANGED <<promptService, cacheConfig, handlers, handler, log, resizeLog>>
        /\ UNCHANGED <<excerptLog, pace, enhanceRun>>
        /\ UNCHANGED <<searchVars, poolVars, orchVars, plannerVars, sharedPoolVars>>

NextCacheKeys ==
    \/ \E p \in KeyPrompts : CacheEnhancement(p)
    \/ \E q \in KeyPrompts : GetCachedEnhancement(q)
    \/ Tick
    \/ TtlElapses

\* no call of the planner is in progress
PlannerIdle ==
    /\ ppc = "idle"
    /\ searchQueryConfig = TRUE
    /\ planPrompt = <<>>
    /\ planCategories = <<>>
    /\ planLog = NoPlanLog
    /\ planned = NoCategorization

\* no scrape of a second invocation and no cleanup() so far
SharedPoolIdle ==
    /\ scrapers = [a \in PoolInvocations |-> IdleScraper]
    /\ lastRequestTime = [id \in SessionIds |-> 0]
    /\ cleanupLog = NoCleanup

\* resize() was not called
ResizeIdle == resizeLog = NoResize

\* none of the single functions was called
SideIdle ==
    /\ excerptLog = NoExcerpt
    /\ pace = NoPace
    /\ enhanceRun = NoEnhanceRun
    /\ lookup = NoLookup

AuxIdle == PlannerIdle /\ SharedPoolIdle /\ ResizeIdle /\ SideIdle

\* the constructors; one caller will issue its search calls one after another
InitSearchSeq ==
    /\ clock = StartClock
    /\ config \in [apiKey : BOOLEAN, maxRetries : 0..3]
    /\ backend = Responses
    /\ rateLimitInfo = [limit |-> DefaultLimit, lastRequestTime |-> 0]
    /\ callers = {1}
    /\ spc = [c \in AllCallers |-> "idle"]
    /\ attempt = [c \in AllCallers |-> 0]
    /\ wakeAt = [c \in AllCallers |-> 0]
    /\ sent = [c \in AllCallers |-> 0]
    /\ waits = [c \in AllCallers |-> 0]
    /\ lastResp = [c \in AllCallers |-> NoResponse]
    /\ onlyRL = [c \in AllCallers |-> TRUE]
    /\ outcome = [c \in AllCallers |-> "none"]
    /\ searchesDone = [c \in AllCallers |-> 0]
    /\ sendLog = [n |-> 0, last |-> 0, prev |-> 0, recorded |-> 0, limit |-> 0, by |-> 0]
    /\ browsers = {}
    /\ sessions = {}
    /\ nextSessionId = 1
    /\ closeCalls = [id \in SessionIds |-> 0]
    /\ environmentInfo = [platform |-> "linux", arch |-> "x64"]
    /\ created = NoCreate
    /\ opc = "idle"
    /\ originalPrompt = <<>>
    /\ options = [enable_web_search |-> "undefined", max_scraped_content |-> 0]
    /\ categorization = NoCategorization
    /\ searchQueries = <<>>
    /\ qi = 0
    /\ allUrls = <<>>
    /\ uniqueUrls = <<>>
    /\ si = 0
    /\ results = <<>>
    /\ sessionId = 0
    /\ tryOutcome = NoOutcome
    /\ attempted = 0
    /\ failed = {}
    /\ result = NoResult
    /\ scrapeOptions = DefaultOptions
    /\ searched = <<>>
    /\ enhancerInput = NoInput
    /\ promptService = TRUE
    /\ cacheConfig = [ttl |-> 1, max_size |-> 3]
    /\ cache = EmptyCache
    /\ handlers = {}
    /\ handler = [h \in AllHandlers |-> IdleHandler]
    /\ log = <<>>
    /\ AuxIdle

SpecSearchSeq == InitSearchSeq /\ [][NextSearch]_vars

\* the constructors; two invocations will share the search client
InitSearchConc ==
    /\ clock = StartClock
    /\ config \in {[apiKey |-> TRUE, maxRetries |-> 2]}
    /\ backend = {RespOk, RespRateLimited}
    /\ rateLimitInfo = [limit |-> DefaultLimit, lastRequestTime |-> 0]
    /\ callers = {1, 2}
    /\ spc = [c \in AllCallers |-> "idle"]
    /\ attempt = [c \in AllCallers |-> 0]
    /\ wakeAt = [c \in AllCallers |-> 0]
    /\ sent = [c \in AllCallers |-> 0]
    /\ waits = [c \in AllCallers |-> 0]
    /\ lastResp = [c \in AllCallers |-> NoResponse]
    /\ onlyRL = [c \in AllCallers |-> TRUE]
    /\ outcome = [c \in AllCallers |-> "none"]
    /\ searchesDone = [c \in AllCallers |-> 0]
    /\ sendLog = [n |-> 0, last |-> 0, prev |-> 0, recorded |-> 0, limit |-> 0, by |-> 0]
    /\ browsers = {}
    /\ sessions = {}
    /\ nextSessionId = 1
    /\ closeCalls = [id \in SessionIds |-> 0]
    /\ environmentInfo = [platform |-> "linux", arch |-> "x64"]
    /\ created = NoCreate
    /\ opc = "idle"
    /\ originalPrompt = <<>>
    /\ options = [enable_web_search |-> "undefined", max_scraped_content |-> 0]
    /\ categorization = NoCategorization
    /\ searchQueries = <<>>
    /\ qi = 0
    /\ allUrls = <<>>
    /\ uniqueUrls = <<>>
    /\ si = 0
    /\ results = <<>>
    /\ sessionId = 0
    /\ tryOutcome = NoOutcome
    /\ attempted = 0
    /\ failed = {}
    /\ result = NoResult
    /\ scrapeOptions = DefaultOptions
    /\ searched = <<>>
    /\ enhancerInput = NoInput
    /\ promptService = TRUE
    /\ cacheConfig = [ttl |-> 1, max_size |-> 3]
    /\ cache = EmptyCache
    /\ handlers = {}
    /\ handler = [h \in AllHandlers |-> IdleHandler]
    /\ log = <<>>
    /\ AuxIdle

SpecSearchConc == InitSearchConc /\ [][NextSearch]_vars

\* the constructors of the service and of what it creates
InitServices ==
    /\ clock = StartClock
    /\ config \in {[apiKey |-> TRUE, maxRetries |-> 0]}
    /\ backend = {}
    /\ rateLimitInfo = [limit |-> DefaultLimit, lastRequestTime |-> 0]
    /\ callers = {}
    /\ spc = [c \in AllCallers |-> "idle"]
    /\ attempt = [c \in AllCallers |-> 0]
    /\ wakeAt = [c \in AllCallers |-> 0]
    /\ sent = [c \in AllCallers |-> 0]
    /\ waits = [c \in AllCallers |-> 0]
    /\ lastResp = [c \in AllCallers |-> NoResponse]
    /\ onlyRL = [c \in AllCallers |-> TRUE]
    /\ outcome = [c \in AllCallers |-> "none"]
    /\ searchesDone = [c \in AllCallers |-> 0]
    /\ sendLog = [n |-> 0, last |-> 0, prev |-> 0, recorded |-> 0, limit |-> 0, by |-> 0]
    /\ browsers = {}
    /\ sessions = {}
    /\ nextSessionId = 1
    /\ closeCalls = [id \in SessionIds |-> 0]
    /\ environmentInfo = [platform |-> "linux", arch |-> "x64"]
    /\ created = NoCreate
    /\ opc = "idle"
    /\ originalPrompt = <<>>
    /\ options = [enable_web_search |-> "undefined", max_scraped_content |-> 0]
    /\ categorization = NoCategorization
    /\ searchQueries = <<>>
    /\ qi = 0
    /\ allUrls = <<>>
    /\ uniqueUrls = <<>>
    /\ si = 0
    /\ results = <<>>
    /\ sessionId = 0
    /\ tryOutcome = NoOutcome
    /\ attempted = 0
    /\ failed = {}
    /\ result = NoResult
    /\ scrapeOptions = DefaultOptions
    /\ searched = <<>>
    /\ enhancerInput = NoInput
    /\ promptService = TRUE
    /\ cacheConfig = [ttl |-> 1, max_size |-> 3]
    /\ cache = EmptyCache
    /\ handlers = {}
    /\ handler = [h \in AllHandlers |-> IdleHandler]
    /\ log = <<>>

\* one invocation of enhancePromptWithWebContext will run, every collaborator
\* free to fail
InitOrch == InitServices /\ AuxIdle

SpecOrch == InitOrch /\ [][NextOrch]_vars

\* the planner of the service will be called, with or without a provider for
\* its queries
InitPlan ==
    /\ InitServices
    /\ ppc = "idle"
    /\ searchQueryConfig \in BOOLEAN
    /\ planPrompt = <<>>
    /\ planCategories = <<>>
    /\ planLog = NoPlanLog
    /\ planned = NoCategorization
    /\ SharedPoolIdle
    /\ ResizeIdle
    /\ SideIdle

SpecPlan == InitPlan /\ [][NextPlan]_vars

\* invocations will scrape at the same time, and cleanup() will be called
InitPool == InitServices /\ AuxIdle

SpecPool == InitPool /\ [][NextPool]_vars

\* the constructors; a user of the scraper will call scrapeUrls, on any platform
InitScrape ==
    /\ clock = StartClock
    /\ config \in {[apiKey |-> TRUE, maxRetries |-> 0]}
    /\ backend = {}
    /\ rateLimitInfo = [limit |-> DefaultLimit, lastRequestTime |-> 0]
    /\ callers = {}
    /\ spc = [c \in AllCallers |-> "idle"]
    /\ attempt = [c \in AllCallers |-> 0]
    /\ wakeAt = [c \in AllCallers |-> 0]
    /\ sent = [c \in AllCallers |-> 0]
    /\ waits = [c \in AllCallers |-> 0]
    /\ lastResp = [c \in AllCallers |-> NoResponse]
    /\ onlyRL = [c \in AllCallers |-> TRUE]
    /\ outcome = [c \in AllCallers |-> "none"]
    /\ searchesDone = [c \in AllCallers |-> 0]
    /\ sendLog = [n |-> 0, last |-> 0, prev |-> 0, recorded |-> 0, limit |-> 0, by |-> 0]
    /\ browsers = {}
    /\ sessions = {}
    /\ nextSessionId = 1
    /\ closeCalls = [id \in SessionIds |-> 0]
    /\ environmentInfo \in Environments
    /\ created = NoCreate
    /\ opc = "idle"
    /\ originalPrompt = <<>>
    /\ options = [enable_web_search |-> "undefined", max_scraped_content |-> 0]
    /\ categorization = NoCategorization
    /\ searchQueries = <<>>
    /\ qi = 0
    /\ allUrls = <<>>
    /\ uniqueUrls = <<>>
    /\ si = 0
    /\ results = <<>>
    /\ sessionId = 0
    /\ tryOutcome = NoOutcome
    /\ attempted = 0
    /\ failed = {}
    /\ result = NoResult
    /\ scrapeOptions = DefaultOptions
    /\ searched = <<>>
    /\ enhancerInput = NoInput
    /\ promptService = TRUE
    /\ cacheConfig = [ttl |-> 1, max_size |-> 3]
    /\ cache = EmptyCache
    /\ handlers = {}
    /\ handler = [h \in AllHandlers |-> IdleHandler]
    /\ log = <<>>
    /\ AuxIdle

SpecScrape == InitScrape /\ [][NextScrape]_vars
SpecRank == InitOrch /\ [][NextRank]_vars

\* the constructors; the prompt service stands behind the server, whose client
\* sends its requests one after another, or is called by its user itself
InitServer ==
    /\ clock = StartClock + Horizon - 3
    /\ config \in {[apiKey |-> TRUE, maxRetries |-> 0]}
    /\ backend = {}
    /\ rateLimitInfo = [limit |-> DefaultLimit, lastRequestTime |-> 0]
    /\ callers = {}
    /\ spc = [c \in AllCallers |-> "idle"]
    /\ attempt = [c \in AllCallers |-> 0]
    /\ wakeAt = [c \in AllCallers |-> 0]
    /\ sent = [c \in AllCallers |-> 0]
    /\ waits = [c \in AllCallers |-> 0]
    /\ lastResp = [c \in AllCallers |-> NoResponse]
    /\ onlyRL = [c \in AllCallers |-> TRUE]
    /\ outcome = [c \in AllCallers |-> "none"]
    /\ searchesDone = [c \in AllCallers |-> 0]
    /\ sendLog = [n |-> 0, last |-> 0, prev |-> 0, recorded |-> 0, limit |-> 0, by |-> 0]
    /\ browsers = {}
    /\ sessions = {}
    /\ nextSessionId = 1
    /\ closeCalls = [id \in SessionIds |-> 0]
    /\ environmentInfo = [platform |-> "linux", arch |-> "x64"]
    /\ created = NoCreate
    /\ opc = "idle"
    /\ originalPrompt = <<>>
    /\ options = [enable_web_search |-> "undefined", max_scraped_content |-> 0]
    /\ categorization = NoCategorization
    /\ searchQueries = <<>>
    /\ qi = 0
    /\ allUrls = <<>>
    /\ uniqueUrls = <<>>
    /\ si = 0
    /\ results = <<>>
    /\ sessionId = 0
    /\ tryOutcome = NoOutcome
    /\ attempted = 0
    /\ failed = {}
    /\ result = NoResult
    /\ scrapeOptions = DefaultOptions
    /\ searched = <<>>
    /\ enhancerInput = NoInput
    /\ promptService \in BOOLEAN
    /\ cacheConfig = [ttl |-> 1, max_size |-> 3]
    /\ cache = EmptyCache
    /\ handler = [h \in AllHandlers |-> IdleHandler]
    /\ log = <<>>
    /\ AuxIdle

InitCacheSeq ==
    /\ InitServer
    /\ handlers \in {OneSlot, IF promptService THEN {} ELSE OneSlot}

\* the constructors; the server's client sends a request while another is handled
InitCacheConc == InitServer /\ promptService /\ handlers = AllHandlers

SpecCacheSeq == InitCacheSeq /\ [][NextCacheSeq]_vars

\* the constructors; the server stands before its prompt service
InitCacheOptions == InitCacheSeq /\ promptService /\ handlers = OneSlot

SpecCacheOptions == InitCacheOptions /\ [][NextCacheOptions]_vars

SpecCacheConc == InitCacheConc /\ [][NextCacheConc]_vars

\* the constructors; the user of the cache calls it directly
InitResize == InitCacheSeq

SpecResize == InitResize /\ [][NextResize]_vars

\* the constructors; createContextualPrompt is given contents of every length
InitExcerpt == InitServices /\ AuxIdle

SpecExcerpt == InitExcerpt /\ [][NextExcerpt]_vars

\* the constructors; scrapeUrls will be called once
InitPace == InitServices /\ AuxIdle

SpecPace == InitPace /\ [][NextPace]_vars

\* the constructors; enhancePrompt will be called once
InitEnhancePrompt == InitServices /\ AuxIdle

SpecEnhancePrompt == InitEnhancePrompt /\ [][NextEnhancePrompt]_vars

\* the constructors; the user of the cache calls it directly
InitCacheKeys == InitCacheSeq

SpecCacheKeys == InitCacheKeys /\ [][NextCacheKeys]_vars

(***************************************************************************)
(* Claims about EnhancedPromptService, StealthContentScraper and the pool. *)
(***************************************************************************)

\* C1: whatever succeeds or fails, the returned result carries the prompt it was
\* called with as original_prompt.
C1_OriginalPromptVerbatim ==
    opc = "done" => result.original_prompt = originalPrompt

\* a result with web context and an enhanced prompt that differs from the prompt
C1_Witness ==
    /\ opc = "done"
    /\ Len(result.web_context) > 0
    /\ result.enhanced_prompt.enhanced
    /\ result.original_prompt = <<"build", "fastapi", "server">>

ResultFields == {"original_prompt", "enhanced_prompt", "web_context", "search_queries",
                 "categories", "processing_metadata"}

\* C2: no failure of the categorizer, the search client, the scraper or the
\* enhancer reaches the caller as an exception: the call always goes on to
\* return, and what it returns has all six fields.
C2_NeverRaises ==
    /\ opc # "raised"
    /\ opc \notin {"idle", "done"} => ENABLED NextOrch
    /\ opc = "done" => ResultFields \subseteq DOMAIN result

\* the categorizer failed twice and the call still returned
C2_Witness ==
    /\ opc = "done"
    /\ "categorizer" \in failed
    /\ result.categories = <<>>
    /\ ~result.enhanced_prompt.enhanced

\* C3: a session that createStealthBrowser returned has seen no closeBrowser
\* call while its scrapeUrl still holds it and exactly one from then on, and
\* scrapeUrls holds no session when it goes to the next URL or returns.
C3_SessionClosedOnce ==
    /\ \A id \in SessionIds :
          closeCalls[id] = IF id < nextSessionId /\ id # sessionId THEN 1 ELSE 0
    /\ opc \in {"scrape", "enhance", "done"} => sessionId = 0

\* the second session was released after a navigation timeout
C3_Witness ==
    /\ opc = "scrape"
    /\ nextSessionId = 3
    /\ tryOutcome.kind = "navigationTimeout"
    /\ closeCalls[1] = 1 /\ closeCalls[2] = 1

\* C4 as stated: once closeBrowser(sessionId) has returned, neither map of the
\* pool holds sessionId, whether or not browser.close() succeeded.
C4_ClosedSessionGone ==
    \A id \in SessionIds :
        closeCalls[id] > 0 => id \notin browsers /\ id \notin sessions

\* C5 as stated: success_rate is retained items over the URLs the scraper
\* attempted, within [0,1], and 0 rather than NaN when none was attempted.
C5_SuccessRate ==
    opc = "done" =>
        LET sr == result.processing_metadata.success_rate
            retained == Len(result.web_context)
        IN  /\ sr[2] > 0
            /\ 0 <= sr[1] /\ sr[1] <= sr[2]
            /\ IF attempted = 0 THEN sr[1] = 0
               ELSE sr[1] * attempted = retained * sr[2]

(***************************************************************************)
(* Claims about the cache                                                  *)
(***************************************************************************)

NoClearBetween(i, j) == \A k \in (i + 1)..(j - 1) : log[k].kind # "clear_cache"

C7_TwoDelayedRetries ==
    \A c \in callers :
        (config.maxRetries = 2 /\ onlyRL[c] /\ lastResp[c] # NoResponse
            /\ outcome[c] = "raised")
        => (waits[c] = 2 /\ sent[c] = 3)

\* C7 amended: with maxRetries = 2 and a backend whose every answer is its
\* rate-limit answer (HTTP 429 with code RATE_LIMITED), a search call makes
\* exactly 1 delayed retry, 2 requests in all, and then raises.
C7_OneDelayedRetry ==
    \A c \in callers :
        (config.maxRetries = 2 /\ onlyRL[c] /\ lastResp[c] # NoResponse)
        => /\ sent[c] <= 2
           /\ waits[c] <= 1
           /\ outcome[c] # "ok"
           /\ (spc[c] = "idle" => outcome[c] = "raised" /\ sent[c] = 2 /\ waits[c] = 1)

C7_Witness ==
    /\ config.maxRetries = 2
    /\ onlyRL[1] /\ lastResp[1] = RespRateLimited
    /\ outcome[1] = "raised" /\ sent[1] = 2 /\ waits[1] = 1

\* C8 as stated: on a client shared by concurrent invocations no two requests
\* are sent less than the minimum interval 1000/limit ms apart.
C8_MinIntervalBetweenSends ==
    sendLog.n >= 2
    => (sendLog.last - sendLog.prev) * MsPerTick * sendLog.limit >= MsPerSecond

\* C9: for a single caller every request, first attempt or retry, is sent at
\* least 1000/limit ms after the request time that was recorded before it.
C9_SentAfterMinInterval ==
    sendLog.n >= 1
    => (sendLog.last - sendLog.recorded) * MsPerTick * sendLog.limit >= MsPerSecond

\* a retry that left right when its rate-limit wait ended
C9_Witness ==
    /\ sendLog.n >= 2
    /\ spc[1] = "inflight" /\ attempt[1] = 2
    /\ sendLog.limit = DefaultLimit
    /\ sendLog.last - sendLog.recorded = CeilDiv(MsPerSecond, MsPerTick)

\* C10 as stated: once a search call has received a non-success response that
\* is not a rate-limit response (not HTTP 429), it has raised without starting
\* a backoff wait for it; when it was the first response, one request was sent.
C10_OtherErrorRaisesImmediately ==
    \A c \in callers :
        (lastResp[c] # NoResponse /\ ~ResponseOk(lastResp[c])
            /\ ~IsRateLimitResponse(lastResp[c]))
        => /\ outcome[c] = "raised"
           /\ spc[c] = "idle"
           /\ waits[c] = sent[c] - 1

\* C11 as stated: a search call whose last answer was a transient network error
\* (a timeout, a 5xx response or a rate-limit response) has raised only after
\* its retries were exhausted: maxRetries requests sent, a backoff wait between
\* each two of them.
C11_TransientErrorsRetried ==
    \A c \in callers :
        ( /\ outcome[c] = "raised"
          /\ lastResp[c] # NoResponse
          /\ \/ lastResp[c].status = 0
             \/ lastResp[c].status >= 500
             \/ IsRateLimitResponse(lastResp[c]) )
        => /\ sent[c] = MaxRetriesOf(config)
           /\ waits[c] = MaxRetriesOf(config) - 1

\* C12 as stated: once a rate-limit response whose payload carries
\* error.meta.rate_limit = r has been received, the tracked limit is r.
C12_LimitFromRateLimitMetadata ==
    \A c \in callers :
        ( /\ lastResp[c] # NoResponse
          /\ IsRateLimitResponse(lastResp[c])
          /\ lastResp[c].rate_limit # 0 )
        => rateLimitInfo.limit = lastResp[c].rate_limit

(***************************************************************************)
(* Claims about BrowserPoolManager.createStealthBrowser.                   *)
(***************************************************************************)

\* C13: a createStealthBrowser call that returned a session launched the
\* strategies in their configured order, every launch before the last failed
\* and the last succeeded (none was launched after it), and the call added
\* exactly one id, unused until then, to the browser map and to the session map.
C13_FirstSuccessfulStrategy ==
    created.sessionId # 0 =>
        LET n == Len(created.launched)
        IN  /\ n >= 1
            /\ \A i \in 1..n : created.launched[i].strategy = i
            /\ \A i \in 1..(n - 1) : ~created.launched[i].ok
            /\ created.launched[n].ok
            /\ created.sessionId \notin created.browsersBefore \cup created.sessionsBefore
            /\ browsers = created.browsersBefore \cup {created.sessionId}
            /\ sessions = created.sessionsBefore \cup {created.sessionId}

\* the first strategy failed and the second gave the session, while the pool
\* still held an earlier session
C13_Witness ==
    /\ created.sessionId # 0
    /\ Len(created.launched) = 2
    /\ ~created.launched[1].ok /\ created.launched[2].ok
    /\ created.browsersBefore # {}

\* C14: a createStealthBrowser call in which every strategy failed raised an
\* error whose message carries the detected platform, the architecture, the
\* number of strategies (all of them were attempted) and the message of the
\* last launch error, and left both maps of the pool as they were.
C14_AllStrategiesFailed ==
    created.raised =>
        LET n == Len(created.launched)
        IN  /\ n = NumStrategies
            /\ \A i \in 1..n : created.launched[i].strategy = i /\ ~created.launched[i].ok
            /\ created.message.platform = environmentInfo.platform
            /\ created.message.arch = environmentInfo.arch
            /\ created.message.strategies = n
            /\ created.launched[n].error # "" =>
                  created.message.lastError = created.launched[n].error
            /\ browsers = created.browsersBefore
            /\ sessions = created.sessionsBefore

\* on an ARM Mac every launch failed, the last with another error than the first
C14_Witness ==
    /\ created.raised
    /\ environmentInfo.platform = "darwin"
    /\ created.launched[1].error = "spawn ENOENT"
    /\ created.message.lastError = "Failed to launch the browser process"

(***************************************************************************)
(* Claims about StealthContentScraper.scrapeUrls.                          *)
(***************************************************************************)

\* the place of a URL in a list without duplicates
Position(u, urls) == CHOOSE i \in 1..Len(urls) : urls[i] = u

\* the items of results stand in the order their URLs have in urls
InInputOrder(rs, urls) ==
    /\ \A i \in 1..Len(rs) : \E k \in 1..Len(urls) : urls[k] = rs[i].url
    /\ \A i, j \in 1..Len(rs) :
          i < j => Position(rs[i].url, urls) < Position(rs[j].url, urls)

C16_RetainedIffAtLeastMinWordCount ==
    (opc \in {"scrape", "scraped"} /\ si > 1 /\ tryOutcome.kind = "page") =>
        LET url == UrlsToScrape(uniqueUrls)[si - 1]
        IN  (\E i \in 1..Len(results) : results[i].url = url)
                <=> tryOutcome.word_count >= scrapeOptions.minWordCount

\* C17 as stated: at any moment at most one session created by the scrapeUrls
\* call exists in the pool: the session of a URL is gone before the session
\* of the next URL is created.
C17_AtMostOneSession ==
    /\ Cardinality(sessions) <= 1
    /\ Cardinality(browsers) <= 1

(***************************************************************************)
(* Claims about the enhancement step and the search step.                  *)
(***************************************************************************)

\* C18 as stated: when the enhancer failed, the call returns a result whose
\* enhanced_prompt is the original prompt without any context block, also
\* when web context was retained.
C18_EnhancerFailureGivesOriginalPrompt ==
    (opc = "done" /\ "enhancer" \in failed) =>
        result.enhanced_prompt = [enhanced |-> FALSE, prompt |-> PromptOnly(originalPrompt)]

\* C19: the prompt the enhancer is called with is the original prompt when no
\* content was retained; otherwise it is the original prompt, then one block
\* per retained item, in order, with that item's title and URL, then the
\* instruction to use the context.
C19_AugmentedPrompt ==
    (opc = "done" /\ enhancerInput # NoInput) =>
        LET ctx == result.web_context
        IN  /\ enhancerInput.text = originalPrompt
            /\ IF Len(ctx) = 0 THEN enhancerInput = PromptOnly(originalPrompt)
               ELSE /\ Len(enhancerInput.blocks) = Len(ctx)
                    /\ \A i \in 1..Len(ctx) :
                          /\ enhancerInput.blocks[i].title = ctx[i].title
                          /\ enhancerInput.blocks[i].url = ctx[i].url
                    /\ enhancerInput.instruction

\* two items were retained, one with the title of its page and one with the
\* title made from its URL
C19_Witness ==
    /\ opc = "done"
    /\ Len(result.web_context) = 2
    /\ Len(enhancerInput.blocks) = 2
    /\ enhancerInput.blocks[1] = [title |-> "Guide", url |-> UrlGithub]
    /\ enhancerInput.blocks[2] = [title |-> "Blog Post", url |-> UrlBlog]

\* the queries of the plan with a higher priority (a smaller number) than q
HigherPriority(q) ==
    {j \in 1..Len(searchQueries) : searchQueries[j].priority < q.priority}

\* C20: at most 2 queries are handed to the search client, the i-th of them
\* being the query of the i-th highest priority, and the list handed to
\* scrapeUrls has no URL twice and at most max_scraped_content entries, 3 when
\* the option is not set.
C20_QueriesAndUrlsCapped ==
    /\ Len(searched) <= 2
    /\ \A i \in 1..Len(searched) :
          /\ \E j \in 1..Len(searchQueries) : searchQueries[j] = searched[i]
          /\ Cardinality(HigherPriority(searched[i])) = i - 1
    /\ \A i, j \in 1..Len(uniqueUrls) : i # j => uniqueUrls[i] # uniqueUrls[j]
    /\ Len(uniqueUrls) <= (IF options.max_scraped_content = 0 THEN 3
                           ELSE options.max_scraped_content)

\* a plan of 3 queries, 2 searched, 5 URLs found, 4 of them distinct, 3 kept
C20_Witness ==
    /\ opc = "scrape"
    /\ Len(searchQueries) = 3
    /\ Len(searched) = 2
    /\ Len(allUrls) = 5
    /\ options.max_scraped_content = 0
    /\ Len(uniqueUrls) = 3

(***************************************************************************)
(* Claims about the ranking of the scraped content.                        *)
(***************************************************************************)

\* C21: in every returned result web_context has at most 3 items, their
\* relevance scores never increase along the list, and of two items with the
\* same score the one that was scraped first stands first.
C21_RankedStably ==
    opc = "done" =>
        LET w == result.web_context
        IN  /\ Len(w) <= 3
            /\ \A i, j \in 1..Len(w) :
                  i < j =>
                     /\ w[i].relevance_score >= w[j].relevance_score
                     /\ w[i].relevance_score = w[j].relevance_score =>
                           Position(w[i].url, uniqueUrls) < Position(w[j].url, uniqueUrls)

\* the page scraped last has the highest score and stands first; the two
\* pages scraped before it have one score and kept their order
C21_Witness ==
    /\ opc = "done"
    /\ Len(result.web_context) = 3
    /\ result.web_context[1].url = uniqueUrls[3]
    /\ result.web_context[2].url = uniqueUrls[1]
    /\ result.web_context[3].url = uniqueUrls[2]
    /\ result.web_context[2].relevance_score = result.web_context[3].relevance_score
    /\ result.web_context[1].relevance_score > result.web_context[2].relevance_score

(***************************************************************************)
(* Claims about the query planner.                                         *)
(***************************************************************************)

\* C22: categorizeTaskWithWebSearch never raises: a call in progress can
\* always go on, a call that ended has returned categories and a query list,
\* and when the tagger failed or the LLM answered without a text that list
\* is empty.
C22_PlannerNeverRaises ==
    /\ ppc # "raised"
    /\ ppc = "generate" => ENABLED NextPlan
    /\ ppc = "returned" =>
          /\ planned.categories = planCategories
          /\ planLog.tagger.threw =>
                planned.categories = <<>> /\ planned.suggested_search_queries = <<>>
          /\ planLog.llm.kind = "malformed" => planned.suggested_search_queries = <<>>

\* the tagger worked, generate() rejected and the templates of the category
\* had no query for this prompt
C22_Witness ==
    /\ ppc = "returned"
    /\ planned.categories # <<>>
    /\ planLog.llm.kind = "raised"
    /\ planned.suggested_search_queries = <<>>

\* C23 as stated: every query list the planner returns has at most 3
\* entries, the k-th of them with priority k, and on the LLM path the scores
\* of the queries against the prompt never increase along the list.
C23_PrioritiesOneToN ==
    ppc = "returned" =>
        LET qs == planned.suggested_search_queries
        IN  /\ Len(qs) <= 3
            /\ \A k \in 1..Len(qs) : qs[k].priority = k
            /\ planLog.path = "llm" =>
                  \A i, j \in 1..Len(qs) :
                     i < j => CalculateRelevanceScore(qs[i].query, planPrompt)
                                 >= CalculateRelevanceScore(qs[j].query, planPrompt)

\* C24 as stated: when categories exist and the LLM path yields no usable
\* candidate (generate() rejects, or its answer is empty or has no line that
\* survives parsing), the planner returns the template queries of the
\* fallback path.
C24_FallbackWhenNoCandidate ==
    ( /\ ppc = "returned"
      /\ planLog.llm # NoLlm
      /\ \/ planLog.llm.kind = "raised"
         \/ Candidates(planLog.llm.lines, planCategories[1]) = <<>> )
    => planned.suggested_search_queries
          = GenerateFallbackSearchQueries(planPrompt, planCategories)

(***************************************************************************)
(* Claims about the pool under concurrent invocations and about cleanup(). *)
(***************************************************************************)

\* C25 as stated: while an invocation holds a session and takes no step
\* itself, no other invocation changes the browser map or the session map
\* its scrape uses.
C25_SessionMapNotShared ==
    [][ \A a \in PoolInvocations :
           ( /\ scrapers[a].pc = "inSession"
             /\ scrapers'[a] = scrapers[a]
             /\ cleanupLog' = cleanupLog )
           => /\ sessions' = sessions
              /\ browsers' = browsers ]_vars

\* C26 as stated: a cleanup() that ran with no scrape in flight did not raise
\* and left no session in the pool, whatever the last-activity times of the
\* sessions; a second cleanup() with nothing done in between changes nothing.
C26_CleanupEmptiesPool ==
    (cleanupLog.calls > 0 /\ ~cleanupLog.inFlight) =>
        /\ ~cleanupLog.raised
        /\ cleanupLog.after = {}
        /\ (cleanupLog.calls > 1 /\ cleanupLog.before = cleanupLog.prevAfter) =>
              cleanupLog.after = cleanupLog.before

(***************************************************************************)
(* Claims about enhancePromptWithWebContext as a whole.                    *)
(***************************************************************************)

\* C27: when createStealthBrowser failed for every URL handed to scrapeUrls
\* (every URL was attempted and no session was ever created), the invocation
\* still returns a result; its web_context is empty, its success_rate is
\* 0 out of the number of URLs, and the enhancer was called with the original
\* prompt and nothing else.
C27_AcquisitionFailureGivesNoContext ==
    ( /\ opc = "done"
      /\ Len(uniqueUrls) > 0
      /\ \A i \in 1..Len(uniqueUrls) : IsValidUrl(uniqueUrls[i])
      /\ attempted = Len(UrlsToScrape(uniqueUrls))
      /\ nextSessionId = 1 )
    => /\ result # NoResult
       /\ result.web_context = <<>>
       /\ result.processing_metadata.success_rate = <<0, Len(uniqueUrls)>>
       /\ enhancerInput = PromptOnly(originalPrompt)
       /\ result.original_prompt = originalPrompt

\* three URLs were found, every launch failed for each of them, and the
\* result was returned
C27_Witness ==
    /\ opc = "done"
    /\ Len(uniqueUrls) = 3
    /\ \A i \in 1..3 : IsValidUrl(uniqueUrls[i])
    /\ attempted = 3
    /\ nextSessionId = 1
    /\ "scraper" \in failed
    /\ result.web_context = <<>>
    /\ result.processing_metadata.urls_processed = 3

\* C28 as stated: the search_queries of the returned result are exactly the
\* queries handed to the search client in that invocation, in that order,
\* also when they were made from the prompt's keywords.
C28_SearchQueriesAreThoseSearched ==
    opc = "done" => result.search_queries = searched

\* C29: with enable_web_search false the invocation sends no search request
\* and creates no browser session; the result it returns has an empty
\* web_context, and the enhancer, when it is called, is called with the
\* original prompt and nothing else -- it is called unless the planner and
\* the categorizer of the catch block both threw.
C29_WebSearchDisabled ==
    options.enable_web_search = "false" =>
        /\ searched = <<>>
        /\ allUrls = <<>>
        /\ attempted = 0
        /\ nextSessionId = 1
        /\ sessions = {} /\ browsers = {}
        /\ opc = "done" =>
              /\ result.web_context = <<>>
              /\ enhancerInput \in {NoInput, PromptOnly(originalPrompt)}
              /\ "categorizer" \notin failed => enhancerInput = PromptOnly(originalPrompt)

\* web search was switched off, the planner proposed three queries, and the
\* invocation returned after calling the enhancer with the prompt alone
C29_Witness ==
    /\ options.enable_web_search = "false"
    /\ opc = "done"
    /\ Len(categorization.suggested_search_queries) = 3
    /\ searchQueries = <<>>
    /\ enhancerInput = PromptOnly(originalPrompt)
    /\ result.web_context = <<>>

(***************************************************************************)
(* Claims about CacheService.resize.                                       *)
(***************************************************************************)

\* C30 as stated: resize(n) on a cache of s entries removes exactly
\* max(0, s - n) of them, none of which has a larger timestamp + hit_count
\* than an entry that stays; the entries that stay are as they were, there
\* are at most n of them, and nothing is removed when s <= n.
C30_ResizeRemovesTheExcess ==
    [][ resizeLog' # resizeLog =>
          LET s == Cardinality(DOMAIN cache)
              n == resizeLog'.maxSize
              removed == DOMAIN cache \ DOMAIN cache'
          IN  /\ DOMAIN cache' \subseteq DOMAIN cache
              /\ Cardinality(removed) = Max(0, s - n)
              /\ \A r \in removed, k \in DOMAIN cache' : Rank(cache[r]) <= Rank(cache[k])
              /\ \A k \in DOMAIN cache' : cache'[k] = cache[k]
              /\ Cardinality(DOMAIN cache') <= n
              /\ s <= n => cache' = cache ]_vars

(***************************************************************************)
(* Claims about the excerpt of createContextualPrompt.                     *)
(***************************************************************************)

\* C31 as stated: the text inserted after `Content:` has at most 500 characters.
C31_ExcerptAtMost500 ==
    excerptLog.made => Len(excerptLog.summary) <= SummaryLimit

\* C31, amended: the text inserted after `Content:` is the content itself when
\* the content has at most 500 characters; otherwise it is the first 500
\* characters of the content followed by three dots, 503 characters in all.
C31_ExcerptIsCutContentWithEllipsis ==
    excerptLog.made =>
        LET content == excerptLog.content
            summary == excerptLog.summary
        IN  IF Len(content) <= SummaryLimit THEN summary = content
            ELSE /\ Len(summary) = SummaryLimit + 3
                 /\ \A i \in 1..SummaryLimit : summary[i] = content[i]
                 /\ \A i \in 1..3 : summary[SummaryLimit + i] = 46

\* a content of 501 characters was summarised: the summary is longer than it
C31_Witness ==
    /\ excerptLog.made
    /\ Len(excerptLog.content) = SummaryLimit + 1
    /\ Len(excerptLog.summary) = SummaryLimit + 3

(***************************************************************************)
(* Claims about the pacing of scrapeUrls.                                  *)
(***************************************************************************)

\* C32 as stated: between the end of the attempt on one URL and the beginning
\* of the attempt on the next URL of the same scrapeUrls call, 2 to 5 seconds
\* pass, whatever the outcome of the earlier attempt was.
C32_DelayBetweenAttempts ==
    \A k \in 1..(Len(pace.began) - 1) :
        /\ pace.began[k + 1] - pace.ended[k] >= 2000
        /\ pace.began[k + 1] - pace.ended[k] <= 5000

(***************************************************************************)
(* Claims about the cost limit of PromptEnhancer.enhancePrompt.            *)
(***************************************************************************)

\* C33 as stated: the estimated_cost of the result of enhancePrompt, the sum
\* of the costs of the generate calls made, is at most the cost limit in force.
C33_CostWithinLimit ==
    enhanceRun.pc = "returned" => enhanceRun.estimated_cost <= enhanceRun.costLimit

(***************************************************************************)
(* Claims about the two maps of the pool.                                  *)
(***************************************************************************)

\* C34: whenever a call of the pool is suspended or has returned, the browser
\* map and the session map have the same keys, after any createStealthBrowser,
\* closeBrowser and cleanupOldSessions calls, with browser.close() failing or not.
C34_SameKeySet ==
    browsers = sessions

\* the browser of a session could not be closed, neither by its scrape nor by
\* a cleanup() that came later, while another scrape holds a second session
C34_Witness ==
    /\ cleanupLog.calls > 0
    /\ \E id \in sessions : closeCalls[id] >= 2
    /\ \E a \in PoolInvocations : scrapers[a].pc = "inSession"
    /\ Cardinality(sessions) = 2
    /\ browsers = sessions

(***************************************************************************)
(* Claims about the keys of the cache.                                     *)
(***************************************************************************)

\* C35 as stated: getCachedEnhancement(q) returns null when nothing was
\* stored for q, whatever was stored for other prompts; a value returned for
\* q is the value stored for q.
C35_ValueOnlyForItsPrompt ==
    lookup.asked =>
        /\ lookup.prompt \notin lookup.stored => lookup.returned = Null
        /\ lookup.returned # Null => lookup.returned = ResultFor(lookup.prompt)

\* the value of enable_web_search the pipeline runs under: options.enable_web_search ?? true
EffectiveWebSearch(ews) == HandlerOptions([IdleHandler EXCEPT !.enable_web_search = ews]).enable_web_search

\* request i computed and stored the result that request j finds in the cache
ComputedFor(i, j) ==
    /\ i < j
    /\ log[i].kind = "process_prompt" /\ ~log[i].fromCache /\ log[i].success
    /\ GenerateEnhancementKey(log[i].prompt) = GenerateEnhancementKey(log[j].prompt)
    /\ \A k \in (i + 1)..(j - 1) :
          ~(log[k].kind = "process_prompt" /\ ~log[k].fromCache /\ log[k].success)

\* C36 as stated: a process_prompt result served from the enhancement cache was
\* computed under the same enable_web_search as the request that receives it: a
\* result computed with web search disabled is never returned to a later request
\* for the same prompt that enables web search.
C36_CachedResultComputedUnderSameOptions ==
    \A i, j \in 1..Len(log) :
        ( /\ log[j].kind = "process_prompt" /\ log[j].fromCache
          /\ ComputedFor(i, j) )
        => EffectiveWebSearch(log[i].enable_web_search)
               = EffectiveWebSearch(log[j].enable_web_search)

\* request i was answered with a degraded result that the pipeline computed
ComputedDegraded(i) ==
    /\ log[i].kind = "process_prompt" /\ log[i].success /\ log[i].ranPipeline
    /\ Degraded(log[i].result)

C38_PipelineRunsAtMostOnce ==
    \A i, j \in 1..Len(log) :
        ( /\ i < j
          /\ log[i].kind = "process_prompt" /\ log[j].kind = "process_prompt"
          /\ log[i].prompt = log[j].prompt
          /\ log[i].ranPipeline /\ log[i].success )
        => ~log[j].ranPipeline

\* C39 as stated: the browser of the session that a scrapeUrl is using stays
\* open until that scrapeUrl releases it in its finally block: no cleanup() or
\* cleanupOldSessions call that runs meanwhile closes it.
C39_SessionInUseStaysOpen ==
    \A a \in PoolInvocations :
        scrapers[a].pc = "inSession" => scrapers[a].sessionId \in browsers

====
